---- MODULE Spec2Model ----
(***************************************************************************)
(* File-status reconciliation and caching engine of open-doc-translate:    *)
(* FileManager (main process) and the batch fan-out of TranslationDialog   *)
(* (renderer).  Cache keys and file names are built as strings, exactly as *)
(* the source builds them.                                                 *)
(***************************************************************************)
EXTENDS Integers, Sequences, FiniteSets, TLC

\* ------------------------------------------------------------------------
\* Bounds of the model
\* ------------------------------------------------------------------------
\* number of distinct upstream contents a volatile path can have
MaxVer == 2

\* largest number of paths selected for one batch translation
MaxFiles == 3

\* largest concurrency limit in the settings
MaxWorkers == 3

\* largest number of reads and writes failing together in one getFileTree
\* (besides all of them failing)
MaxFaults == 2

\* the limit used when the settings hold none (llmConfig.concurrency || 3)
DefaultConcurrency == 3

\* ------------------------------------------------------------------------
\* The repositories the handlers are called on.  A scenario is the set of
\* (project root, working branch, path) triples configured in the app; it is
\* chosen at start and never changes.
\* ------------------------------------------------------------------------
ScenarioPaths == {<<"P", "f/x", "a.md">>, <<"P", "f/x", "d/b.md">>}

ScenarioCollidingBranches == {<<"P", "f/x", "a.md">>, <<"P", "f_x", "a.md">>}

ScenarioProjects == {<<"P", "f/x", "a.md">>, <<"Q", "f/x", "a.md">>}

Scenarios == {ScenarioPaths, ScenarioCollidingBranches, ScenarioProjects}

\* two paths on one branch next to another branch, for the store on its own
ScenarioStore ==
  {<<"P", "f/x", "a.md">>, <<"P", "f/x", "d/b.md">>, <<"P", "m", "a.md">>}

StoreScenarios == {ScenarioStore, ScenarioCollidingBranches, ScenarioProjects}

\* the project open in the translation dialog, with MaxFiles paths
DialogProject == "P"

DialogBranch == "m"

DialogPaths == {"f" \o ToString(i) \o ".md" : i \in 1..MaxFiles}

ScenarioBatch == {<<DialogProject, DialogBranch, f>> : f \in DialogPaths}

UpstreamBranches == {"main"}

\* the one path whose upstream content changes and whose local copy may be
\* missing; every other path is upstream at version 1 and present locally
Volatile == <<"P", "a.md">>

VARIABLES
  targets,            \* the scenario: configured (project, branch, path)
  statusCache,        \* FileManager.statusCache : cacheKey -> FileStatus
  upstreamHashCache,  \* FileManager.upstreamHashCache : key -> (path -> hash)
  disk,               \* persisted status files : file name -> (path -> entry)
  upstream,           \* <<project, path>> -> version at upstream/main, 0 = absent
  worktree,           \* <<project, path>> -> "absent" | "clean" | "dirty"
  ret,                \* the last handler call and what it returned (for
                      \* getFileTree also the git commands that failed)
  batch,              \* TranslationDialog: locals of translateWithConcurrency
                      \* and the file each processFile task has in flight
  progress,           \* TranslationDialog: the progress state (setProgress)
  calls               \* translateFile calls followed step by step: path ->
                      \* the await the call is at and the cache its
                      \* saveStatusCache is writing

vars == <<targets, statusCache, upstreamHashCache, disk, upstream, worktree, ret,
          batch, progress, calls>>

\* ------------------------------------------------------------------------
\* Values
\* ------------------------------------------------------------------------
None == "none"        \* undefined / null

BlobHash(v) == "b" \o ToString(v)        \* git ls-tree blob id of version v

CommitHash(v) == "c" \o ToString(v)      \* git log -1 commit id of version v

Projects(T) == {t[1] : t \in T}

BranchesOf(T, p) == {t[2] : t \in {u \in T : u[1] = p}}

PathsOf(T, p) == {t[3] : t \in {u \in T : u[1] = p}}

ProjPaths(T) == {<<t[1], t[3]>> : t \in T}

EmptyMap == [k \in {} |-> None]

NoCall == [op |-> "none", proj |-> None, wb |-> None, path |-> None,
           faults |-> {}, ok |-> TRUE, out |-> EmptyMap]

\* a FileStatus as stored in the cache and in the persisted record
Entry(s, h) == [status |-> s, lastHash |-> h]

\* a FileStatus as returned to the caller
Status(s, m, h) == [status |-> s, modified |-> m, lastHash |-> h]

\* ------------------------------------------------------------------------
\* String helpers (String.prototype.startsWith / substring / replace)
\* ------------------------------------------------------------------------
StartsWith(s, pre) ==
  /\ Len(s) >= Len(pre)
  /\ SubSeq(s, 1, Len(pre)) = pre

Substring(s, n) == SubSeq(s, n + 1, Len(s))

RECURSIVE ReplaceSlashes(_)
ReplaceSlashes(s) ==
  IF s = "" THEN ""
  ELSE LET c == SubSeq(s, 1, 1)
       IN (IF c \in {"/", "\\"} THEN "_" ELSE c) \o ReplaceSlashes(Substring(s, 1))

CacheKey(projectPath, workingBranch, filePath) ==
  projectPath \o ":" \o workingBranch \o ":" \o filePath

BranchPrefix(projectPath, workingBranch) ==
  projectPath \o ":" \o workingBranch \o ":"

getStatusFilePath(projectPath, workingBranch) ==
  projectPath \o "/.opendoc-translate-" \o ReplaceSlashes(workingBranch) \o ".json"

getUpstreamCacheKey(projectPath, upstreamBranch) ==
  projectPath \o ":upstream/" \o upstreamBranch

\* Map.set / Map.delete on a function whose domain is the set of present keys
MapSet(m, k, v) == [x \in DOMAIN m \cup {k} |-> IF x = k THEN v ELSE m[x]]

MapDeleteAll(m, ks) == [x \in DOMAIN m \ ks |-> m[x]]

\* ------------------------------------------------------------------------
\* The version-control oracle and the working tree.  Every git command may
\* fail; F is the set of commands that fail during the call at hand.
\* ------------------------------------------------------------------------
\* git cat-file -e upstream/<branch>:<path>; a failing command reads as absent
fileExistsInBranch(up, p, f, F) == "cat-file" \notin F /\ up[<<p, f>>] # 0

fileExistsLocally(wt, p, f) == wt[<<p, f>>] # "absent"

\* git status --porcelain <path>; a failing command reads as unmodified
isFileModified(wt, p, f, F) == "status" \notin F /\ wt[<<p, f>>] = "dirty"

\* git log -1 --format=%H upstream/<branch> -- <path>
getFileHash(up, p, f, F) ==
  IF "log" \notin F /\ up[<<p, f>>] # 0 THEN CommitHash(up[<<p, f>>]) ELSE None

\* git ls-tree upstream/<branch> <path>
getFileBlobHash(up, p, f, F) ==
  IF "ls-tree" \notin F /\ up[<<p, f>>] # 0 THEN BlobHash(up[<<p, f>>]) ELSE None

\* git show upstream/<branch>:<path>
\* a read that never fails
CanReadUpstreamAlways(up, p, f, F) == TRUE

CanReadUpstream(up, p, f, F) == "show" \notin F /\ up[<<p, f>>] # 0

\* ------------------------------------------------------------------------
\* Status Cache Store
\* ------------------------------------------------------------------------
\* JSON.stringify / JSON.parse of the record of one branch: the record keeps
\* status and lastHash of each path (an undefined lastHash is dropped by
\* stringify and reads back as undefined).  F holds "JSON.parse" when the
\* file cannot be read or parsed; like a missing file, that leaves
\* the cache as it is (clear() comes after the parse)
loadStatusCache(cache, dsk, projectPath, workingBranch, F) ==
  LET statusFilePath == getStatusFilePath(projectPath, workingBranch)
  IN IF statusFilePath \in DOMAIN dsk /\ "JSON.parse" \notin F
     THEN LET statusData == dsk[statusFilePath]
          IN [k \in {CacheKey(projectPath, workingBranch, f) : f \in DOMAIN statusData}
                |-> statusData[Substring(k, Len(BranchPrefix(projectPath, workingBranch)))]]
     ELSE cache

\* a record built from the entries of every branch of the project
StatusObjAnyBranch(cache, projectPath, workingBranch) ==
  LET projectPrefix == projectPath \o ":"
      keys == {k \in DOMAIN cache :
                 /\ StartsWith(k, projectPrefix)
                 /\ cache[k].status \in {"translated", "outdated"}}
  IN [f \in {Substring(k, Len(projectPrefix)) : k \in keys}
        |-> cache[CHOOSE k \in keys : Substring(k, Len(projectPrefix)) = f]]

\* the record saveStatusCache builds from the in-memory cache
StatusObj(cache, projectPath, workingBranch) ==
  LET branchPrefix == BranchPrefix(projectPath, workingBranch)
      keys == {k \in DOMAIN cache :
                 /\ StartsWith(k, branchPrefix)
                 /\ cache[k].status \in {"translated", "outdated"}}
  IN [f \in {Substring(k, Len(branchPrefix)) : k \in keys}
        |-> cache[CHOOSE k \in keys : Substring(k, Len(branchPrefix)) = f]]

\* saveStatusCache that writes the record even when it is empty
saveStatusCacheAlwaysWrite(cache, dsk, projectPath, workingBranch, F) ==
  LET statusFilePath == getStatusFilePath(projectPath, workingBranch)
      statusObj == StatusObj(cache, projectPath, workingBranch)
  IN IF "writeFile" \in F THEN dsk
     ELSE MapSet(dsk, statusFilePath, statusObj)

\* F is the set of file operations that fail during the call; a failing
\* unlink or writeFile is swallowed and leaves the file as it was
saveStatusCache(cache, dsk, projectPath, workingBranch, F) ==
  LET statusFilePath == getStatusFilePath(projectPath, workingBranch)
      statusObj == StatusObj(cache, projectPath, workingBranch)
  IN IF DOMAIN statusObj = {}
     THEN IF "unlink" \in F THEN dsk
          ELSE MapDeleteAll(dsk, {statusFilePath})
     ELSE IF "writeFile" \in F THEN dsk
          ELSE MapSet(dsk, statusFilePath, statusObj)

\* ------------------------------------------------------------------------
\* Single-path status
\* ------------------------------------------------------------------------
\* calculateFileStatus as it was before the record of past translations was
\* consulted alone: a path found locally and never recorded is taken to be
\* translated at the current upstream hash
calculateFileStatusLocalHeuristic(cache, up, wt, p, f, w, F) ==
  LET upstreamExists == fileExistsInBranch(up, p, f, F)
      modified == isFileModified(wt, p, f, F)
      cacheKey == CacheKey(p, w, f)
      hasRecord == cacheKey \in DOMAIN cache /\ cache[cacheKey].lastHash # None
      upstreamHash == getFileHash(up, p, f, F)
  IN IF ~upstreamExists \/ ~fileExistsLocally(wt, p, f)
     THEN Status("untranslated", modified, IF upstreamExists THEN upstreamHash ELSE None)
     ELSE IF hasRecord /\ cache[cacheKey].lastHash # upstreamHash
          THEN Status("outdated", modified, upstreamHash)
          ELSE Status("translated", modified, upstreamHash)

calculateFileStatus(cache, up, wt, p, f, w, F) ==
  LET upstreamExists == fileExistsInBranch(up, p, f, F)
      modified == isFileModified(wt, p, f, F)
      cacheKey == CacheKey(p, w, f)
      hasRecord == cacheKey \in DOMAIN cache /\ cache[cacheKey].lastHash # None
      upstreamHash == getFileHash(up, p, f, F)
  IN IF upstreamExists /\ hasRecord
     THEN IF upstreamHash # None /\ cache[cacheKey].lastHash = upstreamHash
          THEN Status("translated", modified, upstreamHash)
          ELSE Status("outdated", modified, cache[cacheKey].lastHash)
     ELSE Status("untranslated", modified, None)

\* a getFileStatus that computes the status anew on every call
getFileStatusResultRecomputing(cache, up, wt, p, f, w, F) ==
  calculateFileStatus(cache, up, wt, p, f, w, F)

\* what getFileStatus returns: the cached entry with modified refreshed, or a
\* fresh computation.  (The refreshed flag is also written into the cached
\* object; no code reads it back from there, so entries keep status and
\* lastHash only.)
getFileStatusResult(cache, up, wt, p, f, w, F) ==
  LET cacheKey == CacheKey(p, w, f)
  IN IF cacheKey \in DOMAIN cache
     THEN Status(cache[cacheKey].status, isFileModified(wt, p, f, F),
                 cache[cacheKey].lastHash)
     ELSE calculateFileStatus(cache, up, wt, p, f, w, F)

\* a getFileStatus that caches whatever it computed
getFileStatusCachingAll(p, f, u, w) ==
  \E F \in SUBSET {"cat-file", "status", "log"} :
    LET cacheKey == CacheKey(p, w, f)
        status == getFileStatusResult(statusCache, upstream, worktree, p, f, w, F)
    IN /\ statusCache' =
            IF cacheKey \notin DOMAIN statusCache
            THEN MapSet(statusCache, cacheKey, Entry(status.status, status.lastHash))
            ELSE statusCache
       /\ ret' = [op |-> "getFileStatus", proj |-> p, wb |-> w, path |-> f,
                  faults |-> F \cap {"status"}, ok |-> TRUE,
                  out |-> [x \in {f} |-> status]]
       /\ UNCHANGED <<targets, upstreamHashCache, disk, upstream, worktree>>

\* ret.faults records a failing git status
getFileStatus(p, f, u, w) ==
  \E F \in SUBSET {"cat-file", "status", "log"} :
    LET cacheKey == CacheKey(p, w, f)
        status == getFileStatusResult(statusCache, upstream, worktree, p, f, w, F)
    IN /\ statusCache' =
            IF cacheKey \notin DOMAIN statusCache
               /\ status.status \in {"translated", "outdated"}
            THEN MapSet(statusCache, cacheKey, Entry(status.status, status.lastHash))
            ELSE statusCache
       /\ ret' = [op |-> "getFileStatus", proj |-> p, wb |-> w, path |-> f,
                  faults |-> F \cap {"status"}, ok |-> TRUE,
                  out |-> [x \in {f} |-> status]]
       /\ UNCHANGED <<targets, upstreamHashCache, disk, upstream, worktree>>

\* ------------------------------------------------------------------------
\* Translate-and-record
\* ------------------------------------------------------------------------
\* The text callLLMTranslation returns: the backend's translatedContent, or
\* the result of getMockTranslation when llmService.translateText fails.
callLLMTranslation(F) ==
  IF "translateText" \in F THEN "getMockTranslation" ELSE "translatedContent"

\* the cache after translateFile has set the entry of its path
TranslatedCache(cache, up, p, f, w, F) ==
  MapSet(cache, CacheKey(p, w, f),
         Entry("translated", getFileBlobHash(up, p, f, F)))

\* translateFile while the reads in F fail.  The translated text written to
\* the working copy differs from what is committed there.  ret.faults records
\* a failing git show or translate backend; ret.out names the steps the call
\* went through after the read, the translate backend (callLLMTranslation or
\* the notebook processor) and the write of the working copy, and the text
\* that was written.
translateFileUnder(p, f, u, w, F) ==
    IF ~CanReadUpstream(upstream, p, f, F)
    THEN /\ ret' = [op |-> "translateFile", proj |-> p, wb |-> w, path |-> f,
                    faults |-> F \cap {"show"}, ok |-> FALSE,
                    out |-> EmptyMap]
         /\ UNCHANGED <<targets, statusCache, upstreamHashCache, disk, upstream,
                        worktree>>
    ELSE LET cache1 == TranslatedCache(statusCache, upstream, p, f, w, F)
         IN /\ worktree' = [worktree EXCEPT ![<<p, f>>] = "dirty"]
            /\ statusCache' = cache1
            /\ disk' = saveStatusCache(cache1, disk, p, w, {})
            /\ ret' = [op |-> "translateFile", proj |-> p, wb |-> w, path |-> f,
                       faults |-> F \cap {"translateText"}, ok |-> TRUE,
                       out |-> [translate |-> TRUE, saveFileContent |-> TRUE,
                                content |-> callLLMTranslation(F)]]
            /\ UNCHANGED <<targets, upstreamHashCache, upstream>>

\* translateFile with a working translate backend
translateFile(p, f, u, w) ==
  \E F \in SUBSET {"show", "ls-tree"} : translateFileUnder(p, f, u, w, F)

\* ------------------------------------------------------------------------
\* Batch reconciliation
\* ------------------------------------------------------------------------
\* the candidate paths: the files found under the project root
\* F is the set of reads and writes that fail during the call: ".gitignore"
\* (the ignore file is missing), "readdir", "ls-tree -r", "status", "stat",
\* "JSON.parse" (the cache file is unreadable or corrupt), "writeFile",
\* "unlink".
\* The rules loadGitignore always adds, and those it adds when the ignore
\* file cannot be read; the ignore file itself is taken to hold no rule.
\* Only the rules naming a directory or a file are kept (a glob such as
\* *.log matches no candidate path).
BaseIgnoreRules == {".git", "node_modules", ".DS_Store", "Thumbs.db",
                    ".vscode", ".idea"}

DefaultIgnoreRules == BaseIgnoreRules \cup {"dist", "build", "out", ".env"}

loadGitignore(F) ==
  IF ".gitignore" \in F THEN DefaultIgnoreRules ELSE BaseIgnoreRules

\* ig.ignores(path): a rule names the path or a directory above it
shouldIgnorePath(ig, f) ==
  \E r \in ig : f = r \/ StartsWith(f, r \o "/")

\* the candidate paths: the files found under the project root that the
\* ignore rules let through; none when the root cannot be read
scanDirectory(T, wt, p, F) ==
  IF "readdir" \in F THEN {}
  ELSE {f \in PathsOf(T, p) :
          fileExistsLocally(wt, p, f) /\ ~shouldIgnorePath(loadGitignore(F), f)}

\* stats.size of a file that is there
FileSize == 1

getBatchFileSizes(files, F) ==
  [f \in files |-> IF "stat" \in F THEN 0 ELSE FileSize]

\* git ls-tree -r upstream/<branch>: path -> blob hash of every upstream file
ListUpstreamTree(T, up, p) ==
  [f \in {x \in PathsOf(T, p) : up[<<p, x>>] # 0} |-> BlobHash(up[<<p, f>>])]

\* the map getBatchUpstreamHashes returns
getBatchUpstreamHashes(hcache, T, up, p, u, F) ==
  LET cacheKey == getUpstreamCacheKey(p, u)
  IN IF cacheKey \in DOMAIN hcache THEN hcache[cacheKey]
     ELSE IF "ls-tree -r" \in F THEN EmptyMap
     ELSE ListUpstreamTree(T, up, p)

\* a bulk read that caches the empty map of a failed listing
CacheUpstreamHashesStoringFailures(hcache, T, up, p, u, F) ==
  LET cacheKey == getUpstreamCacheKey(p, u)
  IN IF cacheKey \in DOMAIN hcache THEN hcache
     ELSE MapSet(hcache, cacheKey,
                 IF "ls-tree -r" \in F THEN EmptyMap
                 ELSE ListUpstreamTree(T, up, p))

\* the upstream-hash cache after getBatchUpstreamHashes
CacheUpstreamHashes(hcache, T, up, p, u, F) ==
  LET cacheKey == getUpstreamCacheKey(p, u)
  IN IF cacheKey \in DOMAIN hcache \/ "ls-tree -r" \in F THEN hcache
     ELSE MapSet(hcache, cacheKey, ListUpstreamTree(T, up, p))

\* git status --porcelain: the set of paths it lists (mapped to true)
getBatchModifiedStatus(T, wt, p, F) ==
  IF "status" \in F THEN {}
  ELSE {f \in PathsOf(T, p) : wt[<<p, f>>] = "dirty"}

batchCalculateFileStatus(cache, p, allFiles, w, upstreamHashMap, modifiedMap) ==
  [filePath \in allFiles |->
     LET cacheKey == CacheKey(p, w, filePath)
         hasCached == cacheKey \in DOMAIN cache
         upstreamHash == IF filePath \in DOMAIN upstreamHashMap
                         THEN upstreamHashMap[filePath] ELSE None
         isModified == filePath \in modifiedMap
         status == IF hasCached /\ upstreamHash # None
                   THEN IF cache[cacheKey].lastHash = upstreamHash
                        THEN "translated" ELSE "outdated"
                   ELSE IF hasCached THEN cache[cacheKey].status
                   ELSE "untranslated"
     IN Status(status, isModified, upstreamHash)]

\* getFileTree run on cache c and upstream-hash cache h: the cache as
\* loadStatusCache leaves it, and the status map computed from it
LoadedCache(c, p, w, F) == loadStatusCache(c, disk, p, w, F)

TreeStatusMap(c, h, p, u, w, F) ==
  batchCalculateFileStatus(LoadedCache(c, p, w, F), p,
                           scanDirectory(targets, worktree, p, F), w,
                           getBatchUpstreamHashes(h, targets, upstream, p, u, F),
                           getBatchModifiedStatus(targets, worktree, p, F))

\* a getFileTree that writes the statuses it computed back into the cache
TreeCacheAdoptingResults(c, h, p, u, w, F) ==
  LET loaded == LoadedCache(c, p, w, F)
      statusMap == TreeStatusMap(c, h, p, u, w, F)
  IN [k \in DOMAIN loaded |->
        IF \E f \in DOMAIN statusMap : k = CacheKey(p, w, f)
        THEN LET f == CHOOSE x \in DOMAIN statusMap : k = CacheKey(p, w, x)
             IN Entry(statusMap[f].status, statusMap[f].lastHash)
        ELSE loaded[k]]

\* the cache after getFileTree: the computed statuses are returned in the
\* tree only, nothing of them is written to the cache
TreeCache(c, h, p, u, w, F) == LoadedCache(c, p, w, F)

\* the persisted files after getFileTree
TreeDisk(c, h, p, u, w, F) ==
  LET statusMap == TreeStatusMap(c, h, p, u, w, F)
      hasTranslatedFiles ==
        \E f \in DOMAIN statusMap : statusMap[f].status \in {"translated", "outdated"}
  IN IF hasTranslatedFiles
     THEN saveStatusCache(TreeCache(c, h, p, u, w, F), disk, p, w, F)
     ELSE disk

\* the leaves of the tree buildFileTree makes of the status map
TreeLeaves(statusMap, sizeMap) ==
  [f \in DOMAIN statusMap |->
     [status |-> statusMap[f].status, modified |-> statusMap[f].modified,
      lastHash |-> statusMap[f].lastHash, size |-> sizeMap[f]]]

\* the tree getFileTree returns
TreeOut(c, h, p, u, w, F) ==
  TreeLeaves(TreeStatusMap(c, h, p, u, w, F),
             getBatchFileSizes(scanDirectory(targets, worktree, p, F), F))

\* getFileTree while the reads and writes in F fail
getFileTreeUnder(p, u, w, F) ==
  /\ statusCache' = TreeCache(statusCache, upstreamHashCache, p, u, w, F)
  /\ upstreamHashCache' =
       CacheUpstreamHashes(upstreamHashCache, targets, upstream, p, u, F)
  /\ disk' = TreeDisk(statusCache, upstreamHashCache, p, u, w, F)
  /\ ret' = [op |-> "getFileTree", proj |-> p, wb |-> w, path |-> None,
             faults |-> F, ok |-> TRUE,
             out |-> TreeOut(statusCache, upstreamHashCache, p, u, w, F)]
  /\ UNCHANGED <<targets, upstream, worktree>>

getFileTree(p, u, w) ==
  \E F \in SUBSET {"ls-tree -r", "status"} : getFileTreeUnder(p, u, w, F)

BranchKeys(cache, p, w) == {k \in DOMAIN cache : StartsWith(k, BranchPrefix(p, w))}

\* a clear that leaves the upstream-hash cache alone
clearUpstreamHashCacheKeeping(hcache, p, u) == hcache

clearUpstreamHashCache(hcache, p, u) ==
  MapDeleteAll(hcache, {getUpstreamCacheKey(p, u)})

\* the hash map cached for (p, u) is not the listing of upstream as it is
StaleHashes(hcache, T, up, p, u) ==
  /\ getUpstreamCacheKey(p, u) \in DOMAIN hcache
  /\ hcache[getUpstreamCacheKey(p, u)] # ListUpstreamTree(T, up, p)

\* a sync that reconciles against the hash map that is cached
syncFileStatusesKeepingHashes(p, u, w) ==
  \E F \in SUBSET {"ls-tree -r", "status"} :
    LET c == MapDeleteAll(statusCache, BranchKeys(statusCache, p, w))
        h == upstreamHashCache
    IN /\ statusCache' = TreeCache(c, h, p, u, w, F)
       /\ upstreamHashCache' = CacheUpstreamHashes(h, targets, upstream, p, u, F)
       /\ disk' = TreeDisk(c, h, p, u, w, F)
       /\ ret' = [op |-> "syncFileStatuses", proj |-> p, wb |-> w, path |-> None,
                  faults |-> {}, ok |-> TRUE,
                  out |-> [upstreamBranch |-> u,
                           stale |-> StaleHashes(upstreamHashCache, targets,
                                                 upstream, p, u)]]
       /\ UNCHANGED <<targets, upstream, worktree>>

\* ret.out keeps the upstream branch of the call and whether the hash map
\* the call found cached was out of date
syncFileStatuses(p, u, w) ==
  \E F \in SUBSET {"ls-tree -r", "status"} :
    LET c == MapDeleteAll(statusCache, BranchKeys(statusCache, p, w))
        h == clearUpstreamHashCache(upstreamHashCache, p, u)
    IN /\ statusCache' = TreeCache(c, h, p, u, w, F)
       /\ upstreamHashCache' = CacheUpstreamHashes(h, targets, upstream, p, u, F)
       /\ disk' = TreeDisk(c, h, p, u, w, F)
       /\ ret' = [op |-> "syncFileStatuses", proj |-> p, wb |-> w, path |-> None,
                  faults |-> {}, ok |-> TRUE,
                  out |-> [upstreamBranch |-> u,
                           stale |-> StaleHashes(upstreamHashCache, targets,
                                                 upstream, p, u)]]
       /\ UNCHANGED <<targets, upstream, worktree>>

\* ------------------------------------------------------------------------
\* Cache clearing
\* ------------------------------------------------------------------------
clearProjectCache(p) ==
  /\ statusCache' =
       MapDeleteAll(statusCache, {k \in DOMAIN statusCache : StartsWith(k, p \o ":")})
  /\ upstreamHashCache' =
       MapDeleteAll(upstreamHashCache,
                    {k \in DOMAIN upstreamHashCache : StartsWith(k, p \o ":")})
  /\ ret' = [op |-> "clearProjectCache", proj |-> p, wb |-> None, path |-> None,
             faults |-> {}, ok |-> TRUE, out |-> EmptyMap]
  /\ UNCHANGED <<targets, disk, upstream, worktree>>

\* ret.out keeps the upstream branch of the call and the keys it deleted
clearBranchCache(p, w, u) ==
  /\ statusCache' = MapDeleteAll(statusCache, BranchKeys(statusCache, p, w))
  /\ upstreamHashCache' = clearUpstreamHashCache(upstreamHashCache, p, u)
  /\ ret' = [op |-> "clearBranchCache", proj |-> p, wb |-> w, path |-> None,
             faults |-> {}, ok |-> TRUE,
             out |-> [upstreamBranch |-> u,
                      deleted |-> BranchKeys(statusCache, p, w) \cup
                                  ({getUpstreamCacheKey(p, u)} \cap
                                   DOMAIN upstreamHashCache)]]
  /\ UNCHANGED <<targets, disk, upstream, worktree>>

\* ------------------------------------------------------------------------
\* Environment: upstream moves, the user edits and commits
\* ------------------------------------------------------------------------
UpstreamChange ==
  \E v \in 0..MaxVer :
    /\ upstream[Volatile] # v
    /\ upstream' = [upstream EXCEPT ![Volatile] = v]
    /\ ret' = NoCall
    /\ UNCHANGED <<targets, statusCache, upstreamHashCache, disk, worktree>>

\* the user creates or edits the local copy of the volatile path
LocalEdit ==
  /\ worktree[Volatile] # "dirty"
  /\ worktree' = [worktree EXCEPT ![Volatile] = "dirty"]
  /\ ret' = NoCall
  /\ UNCHANGED <<targets, statusCache, upstreamHashCache, disk, upstream>>

\* the user commits the working tree of the volatile path's project
LocalCommit ==
  LET p == Volatile[1]
  IN /\ \E pf \in ProjPaths(targets) : pf[1] = p /\ worktree[pf] = "dirty"
     /\ worktree' = [pf \in DOMAIN worktree |->
                       IF pf[1] = p /\ worktree[pf] = "dirty" THEN "clean"
                       ELSE worktree[pf]]
     /\ ret' = NoCall
     /\ UNCHANGED <<targets, statusCache, upstreamHashCache, disk, upstream>>

\* ------------------------------------------------------------------------
\* Batch translation (TranslationDialog).  The renderer is single-threaded:
\* a task runs until it awaits translateFile, and runs again when that call
\* settles.  Updaters given to setProgress are applied in the order given.
\* ------------------------------------------------------------------------
NoBatch == [running |-> FALSE, files |-> <<>>, index |-> 0, completed |-> 0,
            failed |-> 0, results |-> EmptyMap, inflight |-> <<>>,
            attempted |-> <<>>, concurrency |-> 0]

NoProgress == [total |-> 0, completed |-> 0, failed |-> 0, current |-> "",
               currentFiles |-> <<>>, isTranslating |-> FALSE,
               results |-> EmptyMap]

\* the message of the error translateFile rejects with
TranslateError == "translate failed"

\* the selections: lists of distinct paths, in the order of the file list
\* (the order handleSelectAll gives them)
PathIndex(f) == CHOOSE i \in 1..MaxFiles : f = "f" \o ToString(i) \o ".md"

Selections ==
  {fs \in UNION {[1..k -> DialogPaths] : k \in 1..MaxFiles} :
     \A i, j \in DOMAIN fs : i < j => PathIndex(fs[i]) < PathIndex(fs[j])}

\* Array.prototype.filter(f => f # filePath)
RECURSIVE FilterOut(_, _)
FilterOut(fs, filePath) ==
  IF fs = <<>> THEN <<>>
  ELSE IF Head(fs) = filePath THEN FilterOut(Tail(fs), filePath)
  ELSE <<Head(fs)>> \o FilterOut(Tail(fs), filePath)

\* a task that advances the shared index only when no call is in flight
processFileStaleIndex(st, w) ==
  IF st.b.index < Len(st.b.files)
  THEN LET filePath == st.b.files[st.b.index + 1]
       IN [b |-> [st.b EXCEPT
                    !.index = IF \E v \in DOMAIN st.b.inflight :
                                    st.b.inflight[v] # None
                              THEN @ ELSE @ + 1,
                    !.inflight[w] = filePath,
                    !.attempted = Append(@, filePath)],
           pr |-> [st.pr EXCEPT
                     !.current = IF st.pr.currentFiles = <<>> THEN filePath ELSE @,
                     !.currentFiles = Append(@, filePath)]]
  ELSE [b |-> [st.b EXCEPT !.inflight[w] = None], pr |-> st.pr]

\* processFile of task w at the head of its loop: claim the next file, mark
\* it as being processed and call translateFile, or return (in flight: None)
processFile(st, w) ==
  IF st.b.index < Len(st.b.files)
  THEN LET filePath == st.b.files[st.b.index + 1]
       IN [b |-> [st.b EXCEPT !.index = @ + 1,
                              !.inflight[w] = filePath,
                              !.attempted = Append(@, filePath)],
           pr |-> [st.pr EXCEPT
                     !.current = IF st.pr.currentFiles = <<>> THEN filePath ELSE @,
                     !.currentFiles = Append(@, filePath)]]
  ELSE [b |-> [st.b EXCEPT !.inflight[w] = None], pr |-> st.pr]

\* the tasks are created one after the other; each runs to its first await
RECURSIVE StartTasks(_, _, _)
StartTasks(st, w, concurrency) ==
  IF w > concurrency THEN st
  ELSE StartTasks(processFile(st, w), w + 1, concurrency)

\* a fan-out that starts one task for every file
translateAllAtOnce(files, concurrency, pr) ==
  StartTasks([b |-> [running |-> TRUE, files |-> files, index |-> 0,
                     completed |-> 0, failed |-> 0, results |-> EmptyMap,
                     inflight |-> [w \in 1..Len(files) |-> None],
                     attempted |-> <<>>, concurrency |-> concurrency],
              pr |-> pr],
             1, Len(files))

\* Array.from({ length: concurrency }, () => processFile()); the record keeps
\* the limit the tasks were created under
translateWithConcurrency(files, concurrency, pr) ==
  StartTasks([b |-> [running |-> TRUE, files |-> files, index |-> 0,
                     completed |-> 0, failed |-> 0, results |-> EmptyMap,
                     inflight |-> [w \in 1..concurrency |-> None],
                     attempted |-> <<>>, concurrency |-> concurrency],
              pr |-> pr],
             1, concurrency)

\* configured is the limit in the settings, 0 when there is none
handleStartTranslation(selectedFiles, configured) ==
  /\ ~progress.isTranslating
  /\ selectedFiles # <<>>
  /\ LET concurrency == IF configured = 0 THEN DefaultConcurrency ELSE configured
         st == translateWithConcurrency(
                 selectedFiles, concurrency,
                 [total |-> Len(selectedFiles), completed |-> 0, failed |-> 0,
                  current |-> "", currentFiles |-> <<>>, isTranslating |-> TRUE,
                  results |-> EmptyMap])
     IN /\ batch' = st.b
        /\ progress' = st.pr
  /\ UNCHANGED <<targets, statusCache, upstreamHashCache, disk, upstream,
                 worktree, ret>>

\* a settled call that records successes only
RecordOutcomeSuccessOnly(b, filePath, ok) ==
  IF ok
  THEN [b EXCEPT !.completed = @ + 1,
                 !.results = MapSet(@, filePath, [success |-> TRUE, error |-> None])]
  ELSE [b EXCEPT !.failed = @ + 1]

\* the try/catch around the awaited translateFile
RecordOutcome(b, filePath, ok) ==
  IF ok
  THEN [b EXCEPT !.completed = @ + 1,
                 !.results = MapSet(@, filePath, [success |-> TRUE, error |-> None])]
  ELSE [b EXCEPT !.failed = @ + 1,
                 !.results = MapSet(@, filePath,
                                    [success |-> FALSE, error |-> TranslateError])]

\* a task that returns when its call has failed
processFileLoopStopOnFailure(st, w, ok) ==
  IF ok THEN processFile(st, w)
  ELSE [b |-> [st.b EXCEPT !.inflight[w] = None], pr |-> st.pr]

\* the while loop of processFile after the try/catch: the task goes round,
\* whatever the outcome of the call was
processFileLoop(st, w, ok) == processFile(st, w)

\* the translateFile call of task w settles; the task records the outcome,
\* updates the progress and goes round its loop
processFileSettled(w, u) ==
  /\ batch.running
  /\ w \in DOMAIN batch.inflight
  /\ batch.inflight[w] # None
  /\ translateFile(DialogProject, batch.inflight[w], u, DialogBranch)
  /\ LET filePath == batch.inflight[w]
         b == RecordOutcome(batch, filePath, ret'.ok)
         newCurrentFiles == FilterOut(progress.currentFiles, filePath)
         pr == [progress EXCEPT
                  !.completed = b.completed,
                  !.failed = b.failed,
                  !.current = IF newCurrentFiles # <<>> THEN Head(newCurrentFiles)
                              ELSE "",
                  !.currentFiles = newCurrentFiles,
                  !.results = b.results]
         st == processFileLoop([b |-> b, pr |-> pr], w, ret'.ok)
     IN /\ batch' = st.b
        /\ progress' = st.pr

\* a return of translateWithConcurrency with no finally block after it
finishTranslationWithoutFinally ==
  /\ batch.running
  /\ \A w \in DOMAIN batch.inflight : batch.inflight[w] = None
  /\ batch' = [batch EXCEPT !.running = FALSE]
  /\ progress' = progress
  /\ UNCHANGED <<targets, statusCache, upstreamHashCache, disk, upstream,
                 worktree, ret>>

\* every task has returned: Promise.all resolves and the finally block runs
finishTranslation ==
  /\ batch.running
  /\ \A w \in DOMAIN batch.inflight : batch.inflight[w] = None
  /\ batch' = [batch EXCEPT !.running = FALSE]
  /\ progress' = [progress EXCEPT !.isTranslating = FALSE, !.current = ""]
  /\ UNCHANGED <<targets, statusCache, upstreamHashCache, disk, upstream,
                 worktree, ret>>

BatchInit ==
  /\ targets = ScenarioBatch
  /\ statusCache = EmptyMap
  /\ upstreamHashCache = EmptyMap
  /\ disk = EmptyMap
  /\ upstream = [pf \in ProjPaths(targets) |-> 1]
  /\ worktree = [pf \in ProjPaths(targets) |-> "clean"]
  /\ ret = NoCall
  /\ batch = NoBatch
  /\ progress = NoProgress
  /\ calls = EmptyMap

BatchNext ==
  \/ \E selectedFiles \in Selections, configured \in 0..MaxWorkers :
       handleStartTranslation(selectedFiles, configured) /\ UNCHANGED calls
  \/ \E w \in DOMAIN batch.inflight, u \in UpstreamBranches :
       processFileSettled(w, u) /\ UNCHANGED calls
  \/ finishTranslation /\ UNCHANGED calls

SpecBatch == BatchInit /\ [][BatchNext]_vars

\* the tasks a batch can start: one per unit of the largest limit
BatchTasks ==
  1..(IF MaxWorkers > DefaultConcurrency THEN MaxWorkers ELSE DefaultConcurrency)

\* One opening of the translation dialog: the first batch started after the
\* dialog has mounted, from its start to the end of its finally block.
DialogNext ==
  \/ \E selectedFiles \in Selections, configured \in 0..MaxWorkers :
       /\ batch = NoBatch
       /\ handleStartTranslation(selectedFiles, configured)
       /\ UNCHANGED calls
  \/ \E w \in DOMAIN batch.inflight, u \in UpstreamBranches :
       processFileSettled(w, u) /\ UNCHANGED calls
  \/ finishTranslation /\ UNCHANGED calls

SpecDialog == BatchInit /\ [][DialogNext]_vars

\* the batch under a scheduler where every awaited translateFile call settles
\* (the promise of each task's call is resolved or rejected) and where the
\* continuation of Promise.all, once every task has returned, is run by the
\* event loop
SpecDialogFair ==
  /\ SpecDialog
  /\ \A w \in BatchTasks :
       WF_vars(\E u \in UpstreamBranches : processFileSettled(w, u) /\ UNCHANGED calls)
  /\ WF_vars(finishTranslation /\ UNCHANGED calls)

\* ------------------------------------------------------------------------
\* Specification
\* ------------------------------------------------------------------------
Init ==
  /\ targets \in Scenarios
  /\ statusCache = EmptyMap
  /\ upstreamHashCache = EmptyMap
  /\ disk = EmptyMap
  /\ upstream = [pf \in ProjPaths(targets) |-> 1]
  /\ worktree = [pf \in ProjPaths(targets) |->
                   IF pf = Volatile THEN "absent" ELSE "clean"]
  /\ ret = NoCall
  /\ batch = NoBatch
  /\ progress = NoProgress
  /\ calls = EmptyMap

Next ==
  \/ /\ \E t \in targets, u \in UpstreamBranches : getFileStatus(t[1], t[3], u, t[2])
     /\ UNCHANGED <<batch, progress, calls>>
  \/ /\ \E t \in targets, u \in UpstreamBranches : translateFile(t[1], t[3], u, t[2])
     /\ UNCHANGED <<batch, progress, calls>>
  \/ /\ \E p \in Projects(targets), u \in UpstreamBranches :
          \E w \in BranchesOf(targets, p) : getFileTree(p, u, w)
     /\ UNCHANGED <<batch, progress, calls>>
  \/ /\ \E p \in Projects(targets), u \in UpstreamBranches :
          \E w \in BranchesOf(targets, p) : syncFileStatuses(p, u, w)
     /\ UNCHANGED <<batch, progress, calls>>
  \/ /\ \E p \in Projects(targets), u \in UpstreamBranches :
          \E w \in BranchesOf(targets, p) : clearBranchCache(p, w, u)
     /\ UNCHANGED <<batch, progress, calls>>
  \/ /\ \E p \in Projects(targets) : clearProjectCache(p)
     /\ UNCHANGED <<batch, progress, calls>>
  \/ /\ UpstreamChange
     /\ UNCHANGED <<batch, progress, calls>>
  \/ /\ LocalEdit
     /\ UNCHANGED <<batch, progress, calls>>
  \/ /\ LocalCommit
     /\ UNCHANGED <<batch, progress, calls>>

Spec == Init /\ [][Next]_vars

\* ------------------------------------------------------------------------
\* The Status Cache Store on its own.  The persisted file lives in the
\* project's working tree: what load finds there is whatever an earlier run,
\* a checkout or an edit left, entries of any status included.  The store is
\* driven by load, save and the handlers that write to the cache; git always
\* answers here (upstream stays at version 1).
\* ------------------------------------------------------------------------
\* hash recorded in the files found at start
OldHash == "b0"

FoundEntries == {Entry("translated", OldHash), Entry("outdated", OldHash),
                 Entry("untranslated", None)}

\* the records a file of project p can hold at start
FoundRecords(T, p) ==
  UNION {[S -> FoundEntries] : S \in SUBSET PathsOf(T, p)}

StatusFiles(T) == {getStatusFilePath(t[1], t[2]) : t \in T}

ProjectOfFile(T, file) ==
  CHOOSE p \in Projects(T) : \E t \in T : t[1] = p /\ getStatusFilePath(p, t[2]) = file

FoundDisks(T) ==
  UNION {{d \in [S -> UNION {FoundRecords(T, p) : p \in Projects(T)}] :
            \A file \in S : d[file] \in FoundRecords(T, ProjectOfFile(T, file))}
         : S \in SUBSET StatusFiles(T)}

StoreLoad(p, w) ==
  \E F \in SUBSET {"JSON.parse"} :
    /\ statusCache' = loadStatusCache(statusCache, disk, p, w, F)
    /\ ret' = [op |-> "loadStatusCache", proj |-> p, wb |-> w, path |-> None,
               faults |-> F, ok |-> TRUE, out |-> EmptyMap]
    /\ UNCHANGED <<targets, upstreamHashCache, disk, upstream, worktree>>

\* out keeps the file save found in place, if any
StoreSave(p, w) ==
  \E F \in SUBSET {"unlink", "writeFile"} :
    LET statusFilePath == getStatusFilePath(p, w)
    IN /\ disk' = saveStatusCache(statusCache, disk, p, w, F)
       /\ ret' = [op |-> "saveStatusCache", proj |-> p, wb |-> w, path |-> None,
                  faults |-> F, ok |-> TRUE,
                  out |-> [x \in {statusFilePath} \cap DOMAIN disk |-> disk[x]]]
       /\ UNCHANGED <<targets, statusCache, upstreamHashCache, upstream, worktree>>

StoreInit ==
  /\ targets \in StoreScenarios
  /\ statusCache = EmptyMap
  /\ upstreamHashCache = EmptyMap
  /\ disk \in FoundDisks(targets)
  /\ upstream = [pf \in ProjPaths(targets) |-> 1]
  /\ worktree = [pf \in ProjPaths(targets) |-> "clean"]
  /\ ret = NoCall
  /\ batch = NoBatch
  /\ progress = NoProgress
  /\ calls = EmptyMap

StoreNext ==
  \/ /\ \E t \in targets : StoreLoad(t[1], t[2])
     /\ UNCHANGED <<batch, progress, calls>>
  \/ /\ \E t \in targets : StoreSave(t[1], t[2])
     /\ UNCHANGED <<batch, progress, calls>>
  \/ /\ \E t \in targets, u \in UpstreamBranches : translateFile(t[1], t[3], u, t[2])
     /\ UNCHANGED <<batch, progress, calls>>
  \/ /\ \E t \in targets, u \in UpstreamBranches : clearBranchCache(t[1], t[2], u)
     /\ UNCHANGED <<batch, progress, calls>>
  \/ /\ \E t \in targets : clearProjectCache(t[1])
     /\ UNCHANGED <<batch, progress, calls>>

SpecStore == StoreInit /\ [][StoreNext]_vars

\* ------------------------------------------------------------------------
\* The clear operations over several projects, working branches and
\* upstream branches.  A project path is the directory the user picked
\* (config.ts 377); "P:m" is a directory next to "P".
\* ------------------------------------------------------------------------
ClearUpstreamBranches == {"main", "dev"}

ScenarioClearProjects == {<<"P", "m", "a.md">>, <<"Q", "m", "a.md">>}

ScenarioClearBranches == {<<"P", "m", "a.md">>, <<"P", "f/x", "a.md">>}

ScenarioClearNested == {<<"P", "m", "a.md">>, <<"P:m", "x", "a.md">>}

ClearScenarios ==
  {ScenarioClearProjects, ScenarioClearBranches, ScenarioClearNested}

ClearInit ==
  /\ targets \in ClearScenarios
  /\ statusCache = EmptyMap
  /\ upstreamHashCache = EmptyMap
  /\ disk = EmptyMap
  /\ upstream = [pf \in ProjPaths(targets) |-> 1]
  /\ worktree = [pf \in ProjPaths(targets) |-> "clean"]
  /\ ret = NoCall
  /\ batch = NoBatch
  /\ progress = NoProgress
  /\ calls = EmptyMap

ClearNext ==
  \/ /\ \E t \in targets, u \in ClearUpstreamBranches :
          translateFile(t[1], t[3], u, t[2])
     /\ UNCHANGED <<batch, progress, calls>>
  \/ /\ \E t \in targets, u \in ClearUpstreamBranches :
          getFileTree(t[1], u, t[2])
     /\ UNCHANGED <<batch, progress, calls>>
  \/ /\ \E t \in targets, u \in ClearUpstreamBranches :
          clearBranchCache(t[1], t[2], u)
     /\ UNCHANGED <<batch, progress, calls>>
  \/ /\ \E t \in targets : clearProjectCache(t[1])
     /\ UNCHANGED <<batch, progress, calls>>

SpecClear == ClearInit /\ [][ClearNext]_vars


\* ------------------------------------------------------------------------
\* getFileTree under every combination of failing reads and writes
\* ------------------------------------------------------------------------
TreeFaults == {".gitignore", "readdir", "ls-tree -r", "status", "stat",
               "JSON.parse", "writeFile", "unlink"}

\* the combinations of failures of one call: up to MaxFaults of them, or all
TreeFaultSets ==
  {F \in SUBSET TreeFaults : Cardinality(F) <= MaxFaults \/ F = TreeFaults}

ScenarioTree == {<<"P", "f/x", "a.md">>, <<"P", "f/x", "dist/c.md">>}

TreeInit ==
  /\ targets = ScenarioTree
  /\ statusCache = EmptyMap
  /\ upstreamHashCache = EmptyMap
  /\ disk = EmptyMap
  /\ upstream = [pf \in ProjPaths(targets) |-> 1]
  /\ worktree = [pf \in ProjPaths(targets) |-> "clean"]
  /\ ret = NoCall
  /\ batch = NoBatch
  /\ progress = NoProgress
  /\ calls = EmptyMap

TreeNext ==
  \/ /\ \E p \in Projects(targets), u \in UpstreamBranches, F \in TreeFaultSets :
          \E w \in BranchesOf(targets, p) : getFileTreeUnder(p, u, w, F)
     /\ UNCHANGED <<batch, progress, calls>>
  \/ /\ \E t \in targets, u \in UpstreamBranches : translateFile(t[1], t[3], u, t[2])
     /\ UNCHANGED <<batch, progress, calls>>

SpecTree == TreeInit /\ [][TreeNext]_vars


\* ------------------------------------------------------------------------
\* The file tree (buildFileTree) as a function of the flat file list
\* ------------------------------------------------------------------------
\* path.sep of the platform the paths are written for
sep == "/"

\* normalizePath: both separators become sep
RECURSIVE normalizePath(_)
normalizePath(path) ==
  IF path = "" THEN ""
  ELSE LET c == SubSeq(path, 1, 1)
       IN (IF c \in {"/", "\\"} THEN sep ELSE c) \o normalizePath(Substring(path, 1))

\* String.prototype.split(sep): the segments between the separators
RECURSIVE SplitFrom(_, _)
SplitFrom(s, cur) ==
  IF s = "" THEN <<cur>>
  ELSE IF SubSeq(s, 1, 1) = sep THEN <<cur>> \o SplitFrom(Substring(s, 1), "")
  ELSE SplitFrom(Substring(s, 1), cur \o SubSeq(s, 1, 1))

getPathParts(path) == SplitFrom(normalizePath(path), "")

\* Array.prototype.join(sep)
RECURSIVE JoinParts(_)
JoinParts(parts) ==
  IF Len(parts) = 0 THEN ""
  ELSE IF Len(parts) = 1 THEN parts[1]
  ELSE parts[1] \o sep \o JoinParts(Tail(parts))

\* path.basename / path.dirname of a relative path without trailing separator
basename(path) == getPathParts(path)[Len(getPathParts(path))]

dirname(path) ==
  IF Len(getPathParts(path)) = 1 THEN "."
  ELSE JoinParts(SubSeq(getPathParts(path), 1, Len(getPathParts(path)) - 1))

\* files.sort by number of segments; Array.prototype.sort is stable
RECURSIVE InsertByDepth(_, _)
InsertByDepth(sorted, f) ==
  IF sorted = <<>> THEN <<f>>
  ELSE IF Len(getPathParts(f)) < Len(getPathParts(sorted[1]))
       THEN <<f>> \o sorted
       ELSE <<sorted[1]>> \o InsertByDepth(Tail(sorted), f)

RECURSIVE SortByDepth(_)
SortByDepth(files) ==
  IF files = <<>> THEN <<>>
  ELSE InsertByDepth(SortByDepth(SubSeq(files, 1, Len(files) - 1)),
                     files[Len(files)])

\* the FileItem of a file and of a directory; items are named by their path,
\* and children lists hold the paths of the child items
FileItemOf(filePath, statusMap, sizeMap) ==
  [name |-> basename(filePath), path |-> filePath,
   status |-> IF filePath \in DOMAIN statusMap
              THEN statusMap[filePath].status ELSE "untranslated",
   modified |-> IF filePath \in DOMAIN statusMap
                THEN statusMap[filePath].modified ELSE FALSE,
   lastHash |-> IF filePath \in DOMAIN statusMap
                THEN statusMap[filePath].lastHash ELSE None,
   size |-> IF filePath \in DOMAIN sizeMap THEN sizeMap[filePath] ELSE 0]

DirItemOf(dirPath) ==
  [name |-> basename(dirPath), path |-> dirPath, status |-> "untranslated",
   children |-> <<>>]

\* children.push(child) on the item at parentPath
PushChild(pathMap, parentPath, childPath) ==
  [pathMap EXCEPT ![parentPath].children = Append(@, childPath)]

\* the directory two levels up is created as a root when it has no item yet
\* and takes the new parent as a child
AttachParentToGrandParent(acc, parentPath) ==
  LET grandParentPath == dirname(parentPath)
      withParent == MapSet(acc.pathMap, parentPath, DirItemOf(parentPath))
  IN IF grandParentPath # "" /\ grandParentPath # "."
     THEN IF grandParentPath \in DOMAIN acc.pathMap
          THEN [tree |-> acc.tree,
                pathMap |-> PushChild(withParent, grandParentPath, parentPath)]
          ELSE [tree |-> Append(acc.tree, grandParentPath),
                pathMap |-> PushChild(MapSet(withParent, grandParentPath,
                                             DirItemOf(grandParentPath)),
                                      grandParentPath, parentPath)]
     ELSE [tree |-> Append(acc.tree, parentPath), pathMap |-> withParent]

\* one iteration of the loop over the sorted files
InsertFile(acc, filePath, statusMap, sizeMap) ==
  LET parts == getPathParts(filePath)
      fileItem == FileItemOf(filePath, statusMap, sizeMap)
      parentPath == JoinParts(SubSeq(parts, 1, Len(parts) - 1))
      withDirs == IF parentPath \in DOMAIN acc.pathMap THEN acc
                  ELSE AttachParentToGrandParent(acc, parentPath)
  IN IF Len(parts) = 1
     THEN [tree |-> Append(acc.tree, filePath),
           pathMap |-> MapSet(acc.pathMap, filePath, fileItem)]
     ELSE [tree |-> withDirs.tree,
           pathMap |-> MapSet(PushChild(withDirs.pathMap, parentPath, filePath),
                              filePath, fileItem)]

RECURSIVE InsertFiles(_, _, _, _)
InsertFiles(acc, files, statusMap, sizeMap) ==
  IF files = <<>> THEN acc
  ELSE InsertFiles(InsertFile(acc, files[1], statusMap, sizeMap), Tail(files),
                   statusMap, sizeMap)

\* tree: the root items in order; pathMap: every item created, by path
buildFileTree(files, statusMap, sizeMap) ==
  InsertFiles([tree |-> <<>>, pathMap |-> EmptyMap], SortByDepth(files),
              statusMap, sizeMap)

\* the files of a project in the orders a directory scan can list them
Orderings(S) ==
  {fs \in [1..Cardinality(S) -> S] : \A i, j \in 1..Cardinality(S) :
                                        fs[i] = fs[j] => i = j}

\* the relative paths of a project's files, one to four levels deep
ForestPaths == {"a.md", "d/b.md", "d/e/c.md", "d/e/f/g.md", "h/i/j/k.md"}

ForestProject == "P"

ForestBranch == "m"

ForestStatuses == {Status("untranslated", FALSE, None),
                   Status("translated", FALSE, BlobHash(1))}

ForestInit ==
  /\ targets \in {{<<ForestProject, ForestBranch, f>> : f \in S} :
                    S \in {X \in SUBSET ForestPaths :
                             Cardinality(X) \in 1..MaxFiles}}
  /\ statusCache = EmptyMap
  /\ upstreamHashCache = EmptyMap
  /\ disk = EmptyMap
  /\ upstream = [pf \in ProjPaths(targets) |-> 1]
  /\ worktree = [pf \in ProjPaths(targets) |-> "clean"]
  /\ ret = NoCall
  /\ batch = NoBatch
  /\ progress = NoProgress
  /\ calls = EmptyMap

\* buildFileTree applied to the project's files, in any scan order, with the
\* status map and the size map getFileTree hands it
buildFileTreeCall(p, w) ==
  \E files \in Orderings(PathsOf(targets, p)) :
    \E statusMap \in [PathsOf(targets, p) -> ForestStatuses] :
      /\ ret' = [op |-> "buildFileTree", proj |-> p, wb |-> w, path |-> None,
                 faults |-> {}, ok |-> TRUE,
                 out |-> buildFileTree(files, statusMap,
                                       getBatchFileSizes(PathsOf(targets, p), {}))]
      /\ UNCHANGED <<targets, statusCache, upstreamHashCache, disk, upstream,
                     worktree, batch, progress, calls>>

ForestNext == buildFileTreeCall(ForestProject, ForestBranch)

SpecForest == ForestInit /\ [][ForestNext]_vars


\* ------------------------------------------------------------------------
\* Translations with a translate backend that may fail
\* ------------------------------------------------------------------------
TranslateFaults == {"show", "ls-tree", "translateText"}

FallbackNext ==
  \/ /\ \E t \in targets, u \in UpstreamBranches, F \in SUBSET TranslateFaults :
          translateFileUnder(t[1], t[3], u, t[2], F)
     /\ UNCHANGED <<batch, progress, calls>>
  \/ /\ UpstreamChange
     /\ UNCHANGED <<batch, progress, calls>>

SpecFallback == Init /\ [][FallbackNext]_vars


\* ------------------------------------------------------------------------
\* Concurrent translateFile calls, one step per await
\* ------------------------------------------------------------------------
\* A call runs without interruption from one await to the next.  The calls
\* are named by their path; all are for one project and working branch.
ConcurrentProject == "P"

ConcurrentBranch == "f/x"

IdleCall == [pc |-> "idle", ok |-> FALSE, snapshot |-> EmptyMap]

AtAwait(f, pc) == f \in DOMAIN calls /\ calls[f].pc = pc

\* the call is made and awaits readFileContent
translateFileCalled(f) ==
  /\ AtAwait(f, "idle")
  /\ calls' = [calls EXCEPT ![f].pc = "readFileContent"]
  /\ UNCHANGED <<targets, statusCache, upstreamHashCache, disk, upstream,
                 worktree, ret>>

\* readFileContent settles: the call rejects, or awaits the translation
readFileContentSettled(p, f, u, w) ==
  /\ AtAwait(f, "readFileContent")
  /\ \E F \in SUBSET {"show"} :
       IF ~CanReadUpstream(upstream, p, f, F)
       THEN /\ calls' = [calls EXCEPT ![f].pc = "done"]
            /\ ret' = [op |-> "translateFile", proj |-> p, wb |-> w, path |-> f,
                       faults |-> F \cap {"show"}, ok |-> FALSE,
                       out |-> EmptyMap]
       ELSE /\ calls' = [calls EXCEPT ![f].pc = "callLLMTranslation"]
            /\ UNCHANGED ret
  /\ UNCHANGED <<targets, statusCache, upstreamHashCache, disk, upstream,
                 worktree>>

\* the translation settles and the call awaits saveFileContent
callLLMTranslationSettled(f) ==
  /\ AtAwait(f, "callLLMTranslation")
  /\ calls' = [calls EXCEPT ![f].pc = "saveFileContent"]
  /\ UNCHANGED <<targets, statusCache, upstreamHashCache, disk, upstream,
                 worktree, ret>>

\* the working copy is written and the call awaits getFileBlobHash
saveFileContentSettled(p, f) ==
  /\ AtAwait(f, "saveFileContent")
  /\ worktree' = [worktree EXCEPT ![<<p, f>>] = "dirty"]
  /\ calls' = [calls EXCEPT ![f].pc = "getFileBlobHash"]
  /\ UNCHANGED <<targets, statusCache, upstreamHashCache, disk, upstream, ret>>

\* getFileBlobHash settles: the call sets the entry of its path, and
\* saveStatusCache builds statusObj from the cache as it is now and awaits
\* the write of the status file
getFileBlobHashSettled(p, f, u, w) ==
  /\ AtAwait(f, "getFileBlobHash")
  /\ \E F \in SUBSET {"ls-tree"} :
       LET cache1 == TranslatedCache(statusCache, upstream, p, f, w, F)
       IN /\ statusCache' = cache1
          /\ calls' = [calls EXCEPT ![f].pc = "saveStatusCache",
                                    ![f].snapshot = cache1]
  /\ UNCHANGED <<targets, upstreamHashCache, disk, upstream, worktree, ret>>

\* the write of the status file lands and the call returns
saveStatusCacheSettled(p, f, w) ==
  /\ AtAwait(f, "saveStatusCache")
  /\ disk' = saveStatusCache(calls[f].snapshot, disk, p, w, {})
  /\ calls' = [calls EXCEPT ![f].pc = "done", ![f].ok = TRUE,
                            ![f].snapshot = EmptyMap]
  /\ ret' = [op |-> "translateFile", proj |-> p, wb |-> w, path |-> f,
             faults |-> {}, ok |-> TRUE,
             out |-> [translate |-> TRUE, saveFileContent |-> TRUE,
                      content |-> callLLMTranslation({})]]
  /\ UNCHANGED <<targets, statusCache, upstreamHashCache, upstream, worktree>>

ConcurrentInit ==
  /\ targets = ScenarioPaths
  /\ statusCache = EmptyMap
  /\ upstreamHashCache = EmptyMap
  /\ disk = EmptyMap
  /\ upstream = [pf \in ProjPaths(targets) |-> 1]
  /\ worktree = [pf \in ProjPaths(targets) |-> "clean"]
  /\ ret = NoCall
  /\ batch = NoBatch
  /\ progress = NoProgress
  /\ calls = [f \in PathsOf(targets, ConcurrentProject) |-> IdleCall]

ConcurrentNext ==
  \/ /\ \E f \in DOMAIN calls : translateFileCalled(f)
     /\ UNCHANGED <<batch, progress>>
  \/ /\ \E f \in DOMAIN calls, u \in UpstreamBranches :
          readFileContentSettled(ConcurrentProject, f, u, ConcurrentBranch)
     /\ UNCHANGED <<batch, progress>>
  \/ /\ \E f \in DOMAIN calls : callLLMTranslationSettled(f)
     /\ UNCHANGED <<batch, progress>>
  \/ /\ \E f \in DOMAIN calls : saveFileContentSettled(ConcurrentProject, f)
     /\ UNCHANGED <<batch, progress>>
  \/ /\ \E f \in DOMAIN calls, u \in UpstreamBranches :
          getFileBlobHashSettled(ConcurrentProject, f, u, ConcurrentBranch)
     /\ UNCHANGED <<batch, progress>>
  \/ /\ \E f \in DOMAIN calls :
          saveStatusCacheSettled(ConcurrentProject, f, ConcurrentBranch)
     /\ UNCHANGED <<batch, progress>>

SpecConcurrent == ConcurrentInit /\ [][ConcurrentNext]_vars


\* ------------------------------------------------------------------------
\* A reconciliation (getFileTree, syncFileStatuses) beside translateFile
\* calls, one step per await
\* ------------------------------------------------------------------------
\* the name of the reconciliation among the calls; the others are named by
\* the path they translate
Reconciliation == "getFileTree"

\* viaSync: the call is made by syncFileStatuses; data: the status file as
\* loadStatusCache read it; tree: what the call is going to return
IdleReconciliation ==
  [pc |-> "idle", ok |-> FALSE, snapshot |-> EmptyMap, viaSync |-> FALSE,
   data |-> EmptyMap, tree |-> NoCall]

\* the call is made, directly or by syncFileStatuses, which first deletes the
\* cached entries of the branch and the cached hash map; loadStatusCache
\* awaits the read of the status file
getFileTreeCalled(p, u, w) ==
  /\ AtAwait(Reconciliation, "idle")
  /\ \E viaSync \in BOOLEAN :
       /\ statusCache' =
            IF viaSync
            THEN MapDeleteAll(statusCache, BranchKeys(statusCache, p, w))
            ELSE statusCache
       /\ upstreamHashCache' =
            IF viaSync THEN clearUpstreamHashCache(upstreamHashCache, p, u)
            ELSE upstreamHashCache
       /\ calls' = [calls EXCEPT ![Reconciliation].pc = "readFile",
                                 ![Reconciliation].viaSync = viaSync]
  /\ UNCHANGED <<targets, disk, upstream, worktree, ret>>

\* fs.access and fs.readFile: the text of the status file as it is now
statusFileRead(p, w) ==
  /\ AtAwait(Reconciliation, "readFile")
  /\ calls' = [calls EXCEPT
       ![Reconciliation].pc = "loadStatusCache",
       ![Reconciliation].data =
          IF getStatusFilePath(p, w) \in DOMAIN disk
          THEN [x \in {getStatusFilePath(p, w)} |-> disk[x]] ELSE EmptyMap]
  /\ UNCHANGED <<targets, statusCache, upstreamHashCache, disk, upstream,
                 worktree, ret>>

\* loadStatusCache goes on with the text it read: the cache is cleared and
\* filled from it; getFileTree awaits the scan and the bulk reads
statusCacheLoaded(p, w) ==
  /\ AtAwait(Reconciliation, "loadStatusCache")
  /\ statusCache' =
       loadStatusCache(statusCache, calls[Reconciliation].data, p, w, {})
  /\ calls' = [calls EXCEPT ![Reconciliation].pc = "bulkReads",
                            ![Reconciliation].data = EmptyMap]
  /\ UNCHANGED <<targets, upstreamHashCache, disk, upstream, worktree, ret>>

\* the scan and the bulk reads settle: the statuses are computed against the
\* cache as it is now; with a translated or outdated path among them
\* saveStatusCache builds statusObj and awaits the write, else the call returns
bulkReadsSettled(p, u, w) ==
  /\ AtAwait(Reconciliation, "bulkReads")
  /\ LET allFiles == scanDirectory(targets, worktree, p, {})
         statusMap ==
           batchCalculateFileStatus(
             statusCache, p, allFiles, w,
             getBatchUpstreamHashes(upstreamHashCache, targets, upstream, p, u, {}),
             getBatchModifiedStatus(targets, worktree, p, {}))
         tree == [op |-> IF calls[Reconciliation].viaSync THEN "syncFileStatuses"
                         ELSE "getFileTree",
                  proj |-> p, wb |-> w, path |-> None, faults |-> {},
                  ok |-> TRUE,
                  out |-> TreeLeaves(statusMap, getBatchFileSizes(allFiles, {}))]
     IN /\ upstreamHashCache' =
             CacheUpstreamHashes(upstreamHashCache, targets, upstream, p, u, {})
        /\ IF \E f \in DOMAIN statusMap :
                statusMap[f].status \in {"translated", "outdated"}
           THEN /\ calls' = [calls EXCEPT
                     ![Reconciliation].pc = "saveStatusCache",
                     ![Reconciliation].snapshot = statusCache,
                     ![Reconciliation].tree = tree]
                /\ UNCHANGED ret
           ELSE /\ calls' = [calls EXCEPT ![Reconciliation].pc = "done",
                                          ![Reconciliation].ok = TRUE]
                /\ ret' = tree
  /\ UNCHANGED <<targets, statusCache, disk, upstream, worktree>>

\* the write of the status file lands and the reconciliation returns
treeSaveSettled(p, w) ==
  /\ AtAwait(Reconciliation, "saveStatusCache")
  /\ disk' = saveStatusCache(calls[Reconciliation].snapshot, disk, p, w, {})
  /\ ret' = calls[Reconciliation].tree
  /\ calls' = [calls EXCEPT ![Reconciliation].pc = "done",
                            ![Reconciliation].ok = TRUE,
                            ![Reconciliation].snapshot = EmptyMap,
                            ![Reconciliation].tree = NoCall]
  /\ UNCHANGED <<targets, statusCache, upstreamHashCache, upstream, worktree>>

\* the path translated while the reconciliation runs; the other path of the
\* project was translated before
ReconcilePath == "a.md"

ReconcileInit ==
  /\ targets = ScenarioPaths
  /\ upstreamHashCache = EmptyMap
  /\ upstream = [pf \in ProjPaths(targets) |-> 1]
  /\ worktree = [pf \in ProjPaths(targets) |->
                   IF pf[2] = ReconcilePath THEN "clean" ELSE "dirty"]
  /\ \E f \in PathsOf(targets, ConcurrentProject) \ {ReconcilePath} :
       /\ statusCache = TranslatedCache(EmptyMap, upstream, ConcurrentProject, f,
                                        ConcurrentBranch, {})
       /\ disk = saveStatusCache(statusCache, EmptyMap, ConcurrentProject,
                                 ConcurrentBranch, {})
  /\ ret = NoCall
  /\ batch = NoBatch
  /\ progress = NoProgress
  /\ calls = [c \in {ReconcilePath, Reconciliation}
                |-> IF c = Reconciliation THEN IdleReconciliation ELSE IdleCall]

ReconcileNext ==
  \/ /\ translateFileCalled(ReconcilePath)
     /\ UNCHANGED <<batch, progress>>
  \/ /\ \E u \in UpstreamBranches :
          readFileContentSettled(ConcurrentProject, ReconcilePath, u,
                                 ConcurrentBranch)
     /\ UNCHANGED <<batch, progress>>
  \/ /\ callLLMTranslationSettled(ReconcilePath)
     /\ UNCHANGED <<batch, progress>>
  \/ /\ saveFileContentSettled(ConcurrentProject, ReconcilePath)
     /\ UNCHANGED <<batch, progress>>
  \/ /\ \E u \in UpstreamBranches :
          getFileBlobHashSettled(ConcurrentProject, ReconcilePath, u,
                                 ConcurrentBranch)
     /\ UNCHANGED <<batch, progress>>
  \/ /\ saveStatusCacheSettled(ConcurrentProject, ReconcilePath, ConcurrentBranch)
     /\ UNCHANGED <<batch, progress>>
  \/ /\ \E u \in UpstreamBranches :
          getFileTreeCalled(ConcurrentProject, u, ConcurrentBranch)
     /\ UNCHANGED <<batch, progress>>
  \/ /\ statusFileRead(ConcurrentProject, ConcurrentBranch)
     /\ UNCHANGED <<batch, progress>>
  \/ /\ statusCacheLoaded(ConcurrentProject, ConcurrentBranch)
     /\ UNCHANGED <<batch, progress>>
  \/ /\ \E u \in UpstreamBranches :
          bulkReadsSettled(ConcurrentProject, u, ConcurrentBranch)
     /\ UNCHANGED <<batch, progress>>
  \/ /\ treeSaveSettled(ConcurrentProject, ConcurrentBranch)
     /\ UNCHANGED <<batch, progress>>

SpecReconcile == ReconcileInit /\ [][ReconcileNext]_vars


\* ------------------------------------------------------------------------
\* getFileTree with the watched directories of the project
\* ------------------------------------------------------------------------
\* the path lies in the directory (join(dirPath, entry.name); git pathspec)
UnderDirectory(dir, f) == dir = "." \/ StartsWith(f, dir \o "/")

\* dirsToScan: the whole project when no directory is watched
dirsToScan(watchDirectories) ==
  IF watchDirectories = <<>> THEN <<".">> ELSE watchDirectories

\* allFiles: the scans of the directories one after the other; listed holds
\* the files of the project a scan accepts, in the order readdir lists them
RECURSIVE scanDirectories(_, _)
scanDirectories(listed, dirs) ==
  IF dirs = <<>> THEN <<>>
  ELSE SelectSeq(listed, LAMBDA f : UnderDirectory(dirs[1], f))
       \o scanDirectories(listed, Tail(dirs))

\* git ls-tree -r upstream/<branch> -- <dirs>
ListUpstreamTreeIn(T, up, p, dirs) ==
  [f \in {x \in DOMAIN ListUpstreamTree(T, up, p) :
            \E i \in DOMAIN dirs : UnderDirectory(dirs[i], x)}
     |-> ListUpstreamTree(T, up, p)[f]]

\* getBatchUpstreamHashes for watched directories: the map it returns and
\* the upstream-hash cache it leaves
getBatchUpstreamHashesIn(hcache, T, up, p, dirs, u, F) ==
  LET cacheKey == getUpstreamCacheKey(p, u)
  IN IF cacheKey \in DOMAIN hcache
     THEN [hashMap |-> hcache[cacheKey], cache |-> hcache]
     ELSE IF "ls-tree -r" \in F
     THEN [hashMap |-> EmptyMap, cache |-> hcache]
     ELSE [hashMap |-> ListUpstreamTreeIn(T, up, p, dirs),
           cache |-> MapSet(hcache, cacheKey, ListUpstreamTreeIn(T, up, p, dirs))]

\* getFileTree(projectPath, watchDirectories, ...); ret.out keeps the
\* directories, the flat list, the hash map used and the tree returned
getFileTreeWatched(p, watchDirectories, u, w) ==
  \E F \in SUBSET {"ls-tree -r"},
     listed \in Orderings(scanDirectory(targets, worktree, p, {})) :
    LET loaded == LoadedCache(statusCache, p, w, F)
        allFiles == scanDirectories(listed, dirsToScan(watchDirectories))
        files == {allFiles[i] : i \in DOMAIN allFiles}
        hashes == getBatchUpstreamHashesIn(upstreamHashCache, targets, upstream,
                                           p, dirsToScan(watchDirectories), u, F)
        statusMap ==
          batchCalculateFileStatus(loaded, p, files, w, hashes.hashMap,
                                   getBatchModifiedStatus(targets, worktree, p, F))
    IN /\ statusCache' = loaded
       /\ upstreamHashCache' = hashes.cache
       /\ disk' = IF \E f \in files :
                       statusMap[f].status \in {"translated", "outdated"}
                  THEN saveStatusCache(loaded, disk, p, w, F) ELSE disk
       /\ ret' = [op |-> "getFileTree", proj |-> p, wb |-> w, path |-> None,
                  faults |-> F, ok |-> TRUE,
                  out |-> [watchDirectories |-> watchDirectories,
                           allFiles |-> allFiles,
                           upstreamHashMap |-> hashes.hashMap,
                           tree |-> buildFileTree(allFiles, statusMap,
                                                  getBatchFileSizes(files, F))]]
       /\ UNCHANGED <<targets, upstream, worktree>>

\* a project with files in directory d and in its subdirectory d/e
ScenarioWatch == {<<"P", "m", f>> : f \in {"d/b.md", "d/e/c.md"}}

\* the watchDirectories a project can be configured with
WatchLists ==
  UNION {[1..n -> {".", "d", "d/e"}] : n \in 0..2}

WatchInit ==
  /\ targets = ScenarioWatch
  /\ statusCache = EmptyMap
  /\ upstreamHashCache = EmptyMap
  /\ disk = EmptyMap
  /\ upstream = [pf \in ProjPaths(targets) |-> 1]
  /\ worktree = [pf \in ProjPaths(targets) |-> "clean"]
  /\ ret = NoCall
  /\ batch = NoBatch
  /\ progress = NoProgress
  /\ calls = EmptyMap

WatchNext ==
  \/ /\ \E p \in Projects(targets), u \in UpstreamBranches,
          watchDirectories \in WatchLists :
          \E w \in BranchesOf(targets, p) :
            getFileTreeWatched(p, watchDirectories, u, w)
     /\ UNCHANGED <<batch, progress, calls>>
  \/ /\ \E t \in targets, u \in UpstreamBranches :
          translateFile(t[1], t[3], u, t[2])
     /\ UNCHANGED <<batch, progress, calls>>

SpecWatch == WatchInit /\ [][WatchNext]_vars


\* ------------------------------------------------------------------------
\* Properties of the single-path status (getFileStatus)
\* ------------------------------------------------------------------------
\* the call ret describes, its cache key and the version upstream has of its path
RetKey == CacheKey(ret.proj, ret.wb, ret.path)

RetUpstream == upstream[<<ret.proj, ret.path>>]

\* C1: hash-equality invariant of getStatus.  Whenever getFileStatus has
\* answered for a path that exists upstream and has a recorded lastHash under
\* (project, working branch), the answer is translated if the current
\* upstream hash equals the recorded hash, and otherwise outdated with the
\* recorded hash as the returned and the stored lastHash.
C1_HashEquality ==
  (/\ ret.op = "getFileStatus"
   /\ RetUpstream # 0
   /\ RetKey \in DOMAIN statusCache
   /\ statusCache[RetKey].lastHash # None)
  => LET recorded == statusCache[RetKey].lastHash
         out == ret.out[ret.path]
     IN IF recorded = BlobHash(RetUpstream)
        THEN out.status = "translated"
        ELSE out.status = "outdated" /\ out.lastHash = recorded

\* C3: lifecycle.  Once a path has been translated at hash H1 (its record is
\* persisted with lastHash H1) and upstream has moved it to another hash, a
\* getFileStatus that directly follows a syncFileStatuses of the same project
\* and working branch returns outdated with lastHash H1.
C3_SyncThenStatus ==
  [][(/\ ret.op = "syncFileStatuses"
      /\ ret'.op = "getFileStatus"
      /\ ret'.proj = ret.proj
      /\ ret'.wb = ret.wb
      /\ upstream[<<ret'.proj, ret'.path>>] # 0
      /\ getStatusFilePath(ret.proj, ret.wb) \in DOMAIN disk
      /\ ret'.path \in DOMAIN disk[getStatusFilePath(ret.proj, ret.wb)]
      /\ LET rec == disk[getStatusFilePath(ret.proj, ret.wb)][ret'.path]
         IN /\ rec.status = "translated"
            /\ rec.lastHash # None
            /\ rec.lastHash # BlobHash(upstream[<<ret'.proj, ret'.path>>]))
     => LET rec == disk[getStatusFilePath(ret.proj, ret.wb)][ret'.path]
            out == ret'.out[ret'.path]
        IN out.status = "outdated" /\ out.lastHash = rec.lastHash]_vars

\* C4: no-history invariant.  A getFileStatus for a path that exists upstream
\* and has no cache entry under (project, working branch) returns untranslated
\* without lastHash, whether or not the path exists locally, and leaves the
\* cache and the persisted files as they were.
C4_NoHistory ==
  [][(/\ ret'.op = "getFileStatus"
      /\ upstream[<<ret'.proj, ret'.path>>] # 0
      /\ CacheKey(ret'.proj, ret'.wb, ret'.path) \notin DOMAIN statusCache)
     => /\ ret'.out[ret'.path].status = "untranslated"
        /\ ret'.out[ret'.path].lastHash = None
        /\ statusCache' = statusCache
        /\ disk' = disk]_vars

\* a getFileStatus has answered for a never-recorded upstream path whose local
\* copy exists
C4_Witness ==
  /\ ret.op = "getFileStatus"
  /\ RetUpstream # 0
  /\ RetKey \notin DOMAIN statusCache
  /\ worktree[<<ret.proj, ret.path>>] # "absent"
  /\ ret.out[ret.path].status = "untranslated"

\* ------------------------------------------------------------------------
\* Properties of batch reconciliation (getFileTree)
\* ------------------------------------------------------------------------
\* C2: in the tree getFileTree returns (the upstream hashes it used being the
\* current ones), a path that exists upstream and whose cache entry has a
\* recorded lastHash is reported outdated with the recorded hash when that
\* hash differs from the current upstream hash, and translated with that hash
\* when they are equal.
C2_BatchKeepsRecordedHash ==
  (/\ ret.op = "getFileTree"
   /\ "ls-tree -r" \notin ret.faults
   /\ \A u \in UpstreamBranches :
        /\ getUpstreamCacheKey(ret.proj, u) \in DOMAIN upstreamHashCache
        /\ upstreamHashCache[getUpstreamCacheKey(ret.proj, u)]
             = ListUpstreamTree(targets, upstream, ret.proj))
  => \A f \in DOMAIN ret.out :
       LET key == CacheKey(ret.proj, ret.wb, f)
       IN (/\ upstream[<<ret.proj, f>>] # 0
           /\ key \in DOMAIN statusCache
           /\ statusCache[key].lastHash # None)
          => LET recorded == statusCache[key].lastHash
             IN IF recorded = BlobHash(upstream[<<ret.proj, f>>])
                THEN ret.out[f].status = "translated" /\ ret.out[f].lastHash = recorded
                ELSE ret.out[f].status = "outdated" /\ ret.out[f].lastHash = recorded

C5_TranslateAndRecord ==
  (ret.op = "translateFile" /\ ret.ok)
  => LET recorded == Entry("translated", BlobHash(RetUpstream))
         statusFilePath == getStatusFilePath(ret.proj, ret.wb)
     IN /\ RetKey \in DOMAIN statusCache
        /\ statusCache[RetKey] = recorded
        /\ statusFilePath \in DOMAIN disk
        /\ ret.path \in DOMAIN disk[statusFilePath]
        /\ disk[statusFilePath][ret.path] = recorded

\* the cache entries of one working branch, and its persisted record (the
\* empty set when there is no file, else the set of the one record)
BranchEntries(cache, p, w) == [k \in BranchKeys(cache, p, w) |-> cache[k]]

PersistedRecord(dsk, p, w) ==
  IF getStatusFilePath(p, w) \in DOMAIN dsk THEN {dsk[getStatusFilePath(p, w)]} ELSE {}

\* C6: branch isolation.  A translateFile on working branch A of a project
\* changes nothing recorded under any other working branch B of that project,
\* neither B's entries in the in-memory cache nor B's persisted file.
C6_BranchIsolation ==
  [][ret'.op = "translateFile"
     => \A B \in BranchesOf(targets, ret'.proj) \ {ret'.wb} :
          /\ BranchEntries(statusCache', ret'.proj, B)
               = BranchEntries(statusCache, ret'.proj, B)
          /\ PersistedRecord(disk', ret'.proj, B)
               = PersistedRecord(disk, ret'.proj, B)]_vars

\* ------------------------------------------------------------------------
\* Properties of the Status Cache Store (saveStatusCache)
\* ------------------------------------------------------------------------
\* the paths whose in-memory entry under (p, w) is translated or outdated
RecordedPaths(cache, T, p, w) ==
  {f \in PathsOf(T, p) :
     /\ CacheKey(p, w, f) \in DOMAIN cache
     /\ cache[CacheKey(p, w, f)].status \in {"translated", "outdated"}}

\* the paths in the persisted file of (p, w); none when there is no file
PersistedPaths(dsk, p, w) ==
  IF getStatusFilePath(p, w) \in DOMAIN dsk
  THEN DOMAIN dsk[getStatusFilePath(p, w)] ELSE {}

C8_EmptyCacheDeletion ==
  (/\ ret.op = "saveStatusCache"
   /\ "unlink" \notin ret.faults
   /\ RecordedPaths(statusCache, targets, ret.proj, ret.wb) = {})
  => /\ getStatusFilePath(ret.proj, ret.wb) \notin DOMAIN disk
     /\ ret.ok

\* a save with nothing to record has removed a file that was in place
C8_Witness ==
  /\ ret.op = "saveStatusCache"
  /\ "unlink" \notin ret.faults
  /\ RecordedPaths(statusCache, targets, ret.proj, ret.wb) = {}
  /\ DOMAIN ret.out # {}
  /\ getStatusFilePath(ret.proj, ret.wb) \notin DOMAIN disk

\* ------------------------------------------------------------------------
\* Properties of batch translation (TranslationDialog)
\* ------------------------------------------------------------------------
Range(fs) == {fs[i] : i \in DOMAIN fs}

BatchFinished == ~batch.running /\ batch.files # <<>>

InFlight == {w \in DOMAIN batch.inflight : batch.inflight[w] # None}

Count(fs, f) == Cardinality({i \in DOMAIN fs : fs[i] = f})

C12_BoundedFanOut ==
  batch.running => Cardinality(InFlight) <= batch.concurrency

\* a batch with more paths than the limit has as many calls in flight as
\* the limit allows after a call has settled
C12_Witness ==
  /\ batch.running
  /\ batch.concurrency = 2
  /\ Cardinality(InFlight) = 2
  /\ Len(batch.files) > batch.concurrency
  /\ batch.completed + batch.failed >= 1

\* C13: when the call for a path settles, the result of that path is set
\* from the outcome of that call only (a failure carries the error message),
\* the result of every other path stays as it was, the task claims the next
\* path when there is one, the other tasks keep their calls, and when the
\* batch ends every selected path was attempted
C13_FailureIsolation ==
  [][/\ (batch.running /\ batch'.running /\ batch' # batch) =>
          LET f == ret'.path
              w == CHOOSE v \in InFlight : batch.inflight[v] = f
          IN /\ ret'.op = "translateFile"
             /\ DOMAIN batch'.results = DOMAIN batch.results \cup {f}
             /\ batch'.results[f] =
                  IF ret'.ok THEN [success |-> TRUE, error |-> None]
                  ELSE [success |-> FALSE, error |-> TranslateError]
             /\ \A g \in DOMAIN batch.results \ {f} :
                  batch'.results[g] = batch.results[g]
             /\ batch'.inflight[w] =
                  IF batch.index < Len(batch.files)
                  THEN batch.files[batch.index + 1] ELSE None
             /\ \A v \in DOMAIN batch.inflight \ {w} :
                  batch'.inflight[v] = batch.inflight[v]
     /\ (batch.running /\ ~batch'.running) =>
          Range(batch.attempted) = Range(batch.files)]_vars

\* a batch run by one task is over in which a path failed and a later path
\* succeeded
C13_Witness ==
  /\ BatchFinished
  /\ Len(batch.inflight) = 1
  /\ \E i, j \in DOMAIN batch.attempted :
       /\ i < j
       /\ ~batch.results[batch.attempted[i]].success
       /\ batch.results[batch.attempted[i]].error = TranslateError
       /\ batch.results[batch.attempted[j]].success


\* C14: when translateFile cannot read the content of the path at the
\* upstream branch (the path is not there, or git show fails), the call
\* fails, the translate backend is not invoked, the working copy is not
\* written and neither the status cache nor the persisted files change
C14_HardFailure ==
  [][(/\ ret'.op = "translateFile"
      /\ ret' # ret
      /\ \/ "show" \in ret'.faults
         \/ upstream[<<ret'.proj, ret'.path>>] = 0)
     => /\ ~ret'.ok
        /\ DOMAIN ret'.out = {}
        /\ worktree' = worktree
        /\ statusCache' = statusCache
        /\ disk' = disk]_vars

\* a path recorded and persisted as translated has gone from upstream and
\* its translation has failed
C14_Witness ==
  /\ ret.op = "translateFile"
  /\ ~ret.ok
  /\ upstream[<<ret.proj, ret.path>>] = 0
  /\ RetKey \in DOMAIN statusCache
  /\ getStatusFilePath(ret.proj, ret.wb) \in DOMAIN disk


\* C15: after loadStatusCache for a branch the status cache holds the
\* contents of the branch's file and nothing else; when the file is missing
\* or cannot be parsed, the status cache is empty, and no error is raised
C15_LoadSemantics ==
  ret.op = "loadStatusCache" =>
    LET file == getStatusFilePath(ret.proj, ret.wb)
    IN /\ ret.ok
       /\ IF file \in DOMAIN disk /\ "JSON.parse" \notin ret.faults
          THEN /\ DOMAIN statusCache =
                    {CacheKey(ret.proj, ret.wb, f) : f \in DOMAIN disk[file]}
               /\ \A f \in DOMAIN disk[file] :
                    statusCache[CacheKey(ret.proj, ret.wb, f)] = disk[file][f]
          ELSE statusCache = EmptyMap


\* C16: after clearBranchCache(P, W, U) the status cache has no entry of
\* project P and working branch W, the upstream-hash cache has no entry of
\* P and U, and a bulk-hash request for P and U made now returns the
\* listing of upstream as it is now
C16_ClearBranchCoupling ==
  ret.op = "clearBranchCache" =>
    LET u == ret.out.upstreamBranch
    IN /\ BranchKeys(statusCache, ret.proj, ret.wb) = {}
       /\ getUpstreamCacheKey(ret.proj, u) \notin DOMAIN upstreamHashCache
       /\ getBatchUpstreamHashes(upstreamHashCache, targets, upstream,
                                 ret.proj, u, {})
            = ListUpstreamTree(targets, upstream, ret.proj)

\* clearBranchCache has deleted a status entry and a hash map of the branch,
\* after upstream had moved on
C16_Witness ==
  /\ ret.op = "clearBranchCache"
  /\ getUpstreamCacheKey(ret.proj, ret.out.upstreamBranch) \in ret.out.deleted
  /\ \E t \in targets : CacheKey(t[1], t[2], t[3]) \in ret.out.deleted
  /\ <<ret.proj, "a.md">> = Volatile
  /\ upstream[Volatile] = 2


\* the entry of key k is the same before and after the step
KeptStatus(k) ==
  k \in DOMAIN statusCache =>
    k \in DOMAIN statusCache' /\ statusCache'[k] = statusCache[k]

KeptHashes(k) ==
  k \in DOMAIN upstreamHashCache =>
    k \in DOMAIN upstreamHashCache' /\ upstreamHashCache'[k] = upstreamHashCache[k]

\* C17: clearBranchCache(P, W, U) leaves the status entries of every other
\* (project, working branch) and the hash maps of every other (project,
\* upstream branch) as they were; clearProjectCache(P) removes every status
\* entry and every hash map of P and leaves those of every other project as
\* they were
C17_ClearFrame ==
  [][/\ ret'.op = "clearBranchCache" =>
          /\ \A t \in targets :
               <<t[1], t[2]>> # <<ret'.proj, ret'.wb>>
               => KeptStatus(CacheKey(t[1], t[2], t[3]))
          /\ \A q \in Projects(targets), v \in ClearUpstreamBranches :
               <<q, v>> # <<ret'.proj, ret'.out.upstreamBranch>>
               => KeptHashes(getUpstreamCacheKey(q, v))
     /\ ret'.op = "clearProjectCache" =>
          /\ \A t \in targets :
               IF t[1] = ret'.proj
               THEN CacheKey(t[1], t[2], t[3]) \notin DOMAIN statusCache'
               ELSE KeptStatus(CacheKey(t[1], t[2], t[3]))
          /\ \A q \in Projects(targets), v \in ClearUpstreamBranches :
               IF q = ret'.proj
               THEN getUpstreamCacheKey(q, v) \notin DOMAIN upstreamHashCache'
               ELSE KeptHashes(getUpstreamCacheKey(q, v))]_vars


\* C18: syncFileStatuses leaves no hash map read before it in the cache:
\* after it the map cached for its project and upstream branch, if there is
\* one, is the listing of upstream as it is; as long as upstream does not
\* change no step makes a cached map out of date; and a getFileTree started
\* while the cached map is not out of date computes its statuses against
\* the listing of upstream as it is (against the empty map when its own
\* bulk read fails)
C18_SyncFreshness ==
  [][/\ ret'.op = "syncFileStatuses" =>
          ~StaleHashes(upstreamHashCache', targets, upstream', ret'.proj,
                       ret'.out.upstreamBranch)
     /\ \/ (upstreamHashCache' = upstreamHashCache /\ upstream' = upstream)
        \/ \A q \in Projects(targets), u \in UpstreamBranches :
             (~StaleHashes(upstreamHashCache, targets, upstream, q, u)
              /\ upstream' = upstream)
             => ~StaleHashes(upstreamHashCache', targets, upstream', q, u)
     /\ \A u \in UpstreamBranches :
          (/\ ret'.op = "getFileTree"
           /\ ~StaleHashes(upstreamHashCache, targets, upstream, ret'.proj, u))
          => ret'.out =
               TreeLeaves(batchCalculateFileStatus(
                 statusCache', ret'.proj,
                 scanDirectory(targets, worktree, ret'.proj, ret'.faults),
                 ret'.wb,
                 IF /\ "ls-tree -r" \in ret'.faults
                    /\ getUpstreamCacheKey(ret'.proj, u)
                         \notin DOMAIN upstreamHashCache
                 THEN EmptyMap
                 ELSE ListUpstreamTree(targets, upstream, ret'.proj),
                 getBatchModifiedStatus(targets, worktree, ret'.proj,
                                        ret'.faults)),
                 getBatchFileSizes(
                   scanDirectory(targets, worktree, ret'.proj, ret'.faults),
                   ret'.faults))]_vars

\* a sync has found an out-of-date hash map cached and has read upstream
\* again
C18_Witness ==
  /\ ret.op = "syncFileStatuses"
  /\ ret.out.stale
  /\ getUpstreamCacheKey(ret.proj, ret.out.upstreamBranch)
       \in DOMAIN upstreamHashCache
  /\ upstream[Volatile] = 2


\* C19: getFileTree returns a tree without an error under every
\* combination of failures, each failure replaced by its safe default: the
\* default ignore rules for a missing ignore file, no files for an
\* unreadable directory, the empty hash map for a failing bulk read,
\* unmodified for a failing status read, size 0 for a failing size read,
\* the empty cache for an unreadable or corrupt cache file; a failing cache
\* write changes nothing of the tree
C19_DegradableFailures ==
  [][ret'.op = "getFileTree" =>
       LET F == ret'.faults
           p == ret'.proj
           w == ret'.wb
           ig == IF ".gitignore" \in F THEN DefaultIgnoreRules
                 ELSE BaseIgnoreRules
           allFiles == IF "readdir" \in F THEN {}
                       ELSE {f \in PathsOf(targets, p) :
                               /\ fileExistsLocally(worktree, p, f)
                               /\ ~shouldIgnorePath(ig, f)}
           cache == IF "JSON.parse" \in F THEN EmptyMap
                    ELSE loadStatusCache(statusCache, disk, p, w, {})
           modifiedMap == IF "status" \in F THEN {}
                          ELSE {f \in PathsOf(targets, p) :
                                  worktree[<<p, f>>] = "dirty"}
           sizeMap == [f \in allFiles |-> IF "stat" \in F THEN 0 ELSE FileSize]
       IN /\ ret'.ok
          /\ \A u \in UpstreamBranches :
               LET upstreamHashMap ==
                     IF getUpstreamCacheKey(p, u) \in DOMAIN upstreamHashCache
                     THEN upstreamHashCache[getUpstreamCacheKey(p, u)]
                     ELSE IF "ls-tree -r" \in F THEN EmptyMap
                     ELSE ListUpstreamTree(targets, upstream, p)
               IN ret'.out =
                    TreeLeaves(batchCalculateFileStatus(
                                 cache, p, allFiles, w, upstreamHashMap,
                                 modifiedMap),
                               sizeMap)]_vars


\* C20: a candidate path that the upstream hash map of a getFileTree does
\* not hold (upstream does not have it, or the bulk read failed and the map
\* is empty) is a leaf with status untranslated and no lastHash, whether or
\* not the status cache has an entry for it
C20_AbsentUpstreamUntranslated ==
  [][ret'.op = "getFileTree" =>
       \A u \in UpstreamBranches :
         LET upstreamHashMap ==
               getBatchUpstreamHashes(upstreamHashCache, targets, upstream,
                                      ret'.proj, u, ret'.faults)
         IN \A f \in DOMAIN ret'.out :
              f \notin DOMAIN upstreamHashMap
              => /\ ret'.out[f].status = "untranslated"
                 /\ ret'.out[f].lastHash = None]_vars


\* C21: every status getFileStatus returns and every leaf of the tree
\* getFileTree returns has no lastHash when its status is untranslated
C21_UntranslatedNoHash ==
  ret.op \in {"getFileStatus", "getFileTree"} =>
    \A f \in DOMAIN ret.out :
      ret.out[f].status = "untranslated" => ret.out[f].lastHash = None


\* C22: every status-cache entry, in memory and in the persisted files,
\* whose status is translated or outdated has a lastHash, also after a
\* translateFile that could not obtain the upstream blob hash of its path
C22_RecordedHashPresent ==
  /\ \A k \in DOMAIN statusCache :
       statusCache[k].status \in {"translated", "outdated"}
       => statusCache[k].lastHash # None
  /\ \A file \in DOMAIN disk : \A f \in DOMAIN disk[file] :
       disk[file][f].status \in {"translated", "outdated"}
       => disk[file][f].lastHash # None


\* C23: started from an empty cache and no persisted file, no sequence of
\* getFileStatus, getFileTree, syncFileStatuses, translateFile and clears
\* (with the saves they make) leaves an entry with status untranslated in
\* the status cache or in a persisted file
C23_UntranslatedNeverStored ==
  /\ \A k \in DOMAIN statusCache : statusCache[k].status # "untranslated"
  /\ \A file \in DOMAIN disk : \A f \in DOMAIN disk[file] :
       disk[file][f].status # "untranslated"

\* getFileStatus has answered untranslated for a path without an entry
\* while another path of the branch is recorded and persisted
C23_Witness ==
  /\ ret.op = "getFileStatus"
  /\ ret.out[ret.path].status = "untranslated"
  /\ RetKey \notin DOMAIN statusCache
  /\ BranchKeys(statusCache, ret.proj, ret.wb) # {}
  /\ getStatusFilePath(ret.proj, ret.wb) \in DOMAIN disk


\* C24: after a getFileTree that compared the recorded lastHash of a path
\* with the upstream hash of the path, the status-cache entry of the path
\* is outdated when the hashes differ and translated when they match, with
\* the recorded lastHash kept, and the persisted file of the branch holds
\* that entry
C24_ReconciliationUpdatesStore ==
  ret.op = "getFileTree" =>
    \A f \in DOMAIN ret.out :
      LET k == CacheKey(ret.proj, ret.wb, f)
          file == getStatusFilePath(ret.proj, ret.wb)
      IN (/\ k \in DOMAIN statusCache
          /\ statusCache[k].lastHash # None
          /\ ret.out[f].lastHash # None)
         => /\ statusCache[k].status =
                 IF statusCache[k].lastHash = ret.out[f].lastHash
                 THEN "translated" ELSE "outdated"
            /\ file \in DOMAIN disk
            /\ f \in DOMAIN disk[file]
            /\ disk[file][f] = statusCache[k]


\* C25: two different working branches of one project have different
\* persisted files, also when their names differ only in a character that
\* is replaced, and a step that saves the record of one branch (a save, a
\* translateFile) leaves the file of every other branch of the project as
\* it was
C25_OneFilePerBranch ==
  [][/\ \A t1, t2 \in targets :
          (t1[1] = t2[1] /\ t1[2] # t2[2])
          => getStatusFilePath(t1[1], t1[2]) # getStatusFilePath(t2[1], t2[2])
     /\ ret'.op \in {"saveStatusCache", "translateFile"} =>
          \A v \in BranchesOf(targets, ret'.proj) \ {ret'.wb} :
            LET file == getStatusFilePath(ret'.proj, v)
            IN IF file \in DOMAIN disk
               THEN file \in DOMAIN disk' /\ disk'[file] = disk[file]
               ELSE file \notin DOMAIN disk']_vars


\* C26: a getFileStatus for a path that has a cache entry returns the
\* status and the lastHash of the entry with the modified flag of the
\* working tree as it is (false when git status fails), whatever upstream
\* holds and whether or not the upstream queries would fail, and it
\* changes neither the status cache, nor the upstream-hash cache, nor the
\* persisted files
C26_FastPath ==
  [][(/\ ret'.op = "getFileStatus"
      /\ CacheKey(ret'.proj, ret'.wb, ret'.path) \in DOMAIN statusCache)
     => LET cached == statusCache[CacheKey(ret'.proj, ret'.wb, ret'.path)]
        IN /\ ret'.out[ret'.path] =
                Status(cached.status,
                       /\ worktree[<<ret'.proj, ret'.path>>] = "dirty"
                       /\ "status" \notin ret'.faults,
                       cached.lastHash)
           /\ statusCache' = statusCache
           /\ upstreamHashCache' = upstreamHashCache
           /\ disk' = disk]_vars

\* getFileStatus has answered from an entry recorded at an upstream hash
\* that upstream has left, for an edited path, while git status failed
C26_Witness ==
  /\ ret.op = "getFileStatus"
  /\ RetKey \in DOMAIN statusCache
  /\ statusCache[RetKey].lastHash = BlobHash(1)
  /\ RetUpstream = 2
  /\ worktree[<<ret.proj, ret.path>>] = "dirty"
  /\ "status" \in ret.faults
  /\ ~ret.out[ret.path].modified


\* C27: a getFileTree or getFileStatus that follows a clearBranchCache or a
\* clearProjectCache of its project and working branch, with no translation
\* in between, reports every path as untranslated
C27_ClearRemovesRecords ==
  [][(/\ ret.op \in {"clearBranchCache", "clearProjectCache"}
      /\ ret'.op \in {"getFileTree", "getFileStatus"}
      /\ ret'.proj = ret.proj
      /\ ret.op = "clearBranchCache" => ret'.wb = ret.wb)
     => \A f \in DOMAIN ret'.out : ret'.out[f].status = "untranslated"]_vars

\* ------------------------------------------------------------------------
\* Properties of the file tree (buildFileTree)
\* ------------------------------------------------------------------------
\* the items of a forest that can be reached from its roots, in preorder
RECURSIVE Flatten(_, _)
Flatten(pathMap, paths) ==
  IF paths = <<>> THEN <<>>
  ELSE <<paths[1]>>
       \o (IF "children" \in DOMAIN pathMap[paths[1]]
           THEN Flatten(pathMap, pathMap[paths[1]].children) ELSE <<>>)
       \o Flatten(pathMap, Tail(paths))

\* the directories above a path
AncestorDirs(path) ==
  {JoinParts(SubSeq(getPathParts(path), 1, k)) :
     k \in 1..(Len(getPathParts(path)) - 1)}

\* C28: tree hierarchy for paths of any depth.  In the forest buildFileTree
\* makes of the flat file list, every node whose path has more than one
\* segment is a child of the node of its parent directory, every directory
\* above a file has exactly one node, the roots are single-segment paths
\* only, and every directory node has status untranslated.
C28_TreeHierarchy ==
  ret.op = "buildFileTree" =>
    LET pathMap == ret.out.pathMap
        nodes == Flatten(pathMap, ret.out.tree)
    IN /\ \A i \in DOMAIN nodes :
            Len(getPathParts(nodes[i])) > 1 =>
              /\ Count(nodes, dirname(nodes[i])) = 1
              /\ "children" \in DOMAIN pathMap[dirname(nodes[i])]
              /\ Count(pathMap[dirname(nodes[i])].children, nodes[i]) = 1
       /\ \A f \in PathsOf(targets, ret.proj) :
            /\ Count(nodes, f) = 1
            /\ \A d \in AncestorDirs(f) : Count(nodes, d) = 1
       /\ \A i \in DOMAIN ret.out.tree :
            Len(getPathParts(ret.out.tree[i])) = 1
       /\ \A i \in DOMAIN nodes :
            "children" \in DOMAIN pathMap[nodes[i]] =>
              pathMap[nodes[i]].status = "untranslated"

\* ------------------------------------------------------------------------
\* Properties of the fallback translator (callLLMTranslation)
\* ------------------------------------------------------------------------
\* C29: fallback translations are distinguishable.  When the translate
\* backend fails during a translateFile that returns, so that the text of
\* getMockTranslation is what was written, what the call records (the cache
\* in memory with the entry of the path, the persisted files, and the result
\* the caller gets) differs from what a call with a working backend records
\* from the same state, whether or not that call obtains the blob hash.
C29_FallbackDistinguishable ==
  [][(/\ ret'.op = "translateFile"
      /\ ret'.ok
      /\ "translateText" \in ret'.faults)
     => \A G \in SUBSET {"ls-tree"} :
          LET genuine == TranslatedCache(statusCache, upstream, ret'.proj,
                                         ret'.path, ret'.wb, G)
          IN <<statusCache', disk', ret'.ok>>
               # <<genuine, saveStatusCache(genuine, disk, ret'.proj, ret'.wb, {}),
                   TRUE>>]_vars

\* ------------------------------------------------------------------------
\* Properties of concurrent translations
\* ------------------------------------------------------------------------
\* C30: no cross-path interference between concurrent translations.  When
\* the translateFile calls for two different paths of one project and working
\* branch have both returned successfully, in whatever order their steps and
\* the writes of the status file took place, the entries of both paths are in
\* the cache in memory and in the persisted file of the branch.
C30_NoCrossPathInterference ==
  \A f, g \in DOMAIN calls :
    (f # g /\ calls[f].pc = "done" /\ calls[f].ok
           /\ calls[g].pc = "done" /\ calls[g].ok)
    => /\ CacheKey(ConcurrentProject, ConcurrentBranch, f) \in DOMAIN statusCache
       /\ CacheKey(ConcurrentProject, ConcurrentBranch, g) \in DOMAIN statusCache
       /\ getStatusFilePath(ConcurrentProject, ConcurrentBranch) \in DOMAIN disk
       /\ {f, g} \subseteq
            DOMAIN disk[getStatusFilePath(ConcurrentProject, ConcurrentBranch)]

\* ------------------------------------------------------------------------
\* Properties of a translation beside a reconciliation
\* ------------------------------------------------------------------------
\* C31: a completed translation record survives a concurrent reconciliation.
\* Once the reconciliation and the translateFile calls have all finished, in
\* whatever order their steps took place, every path whose translateFile
\* returned successfully has its entry in the persisted file of the branch,
\* and a getFileTree made now reports it as translated.  (States in which an
\* entry was recorded without the blob hash are left to C22.)
C31_RecordSurvivesReconciliation ==
  LET file == getStatusFilePath(ConcurrentProject, ConcurrentBranch)
      hashesRecorded ==
        /\ \A k \in DOMAIN statusCache : statusCache[k].lastHash # None
        /\ file \in DOMAIN disk =>
             \A f \in DOMAIN disk[file] : disk[file][f].lastHash # None
  IN (/\ Reconciliation \in DOMAIN calls
      /\ \A c \in DOMAIN calls : calls[c].pc = "done"
      /\ hashesRecorded)
     => \A f \in DOMAIN calls \ {Reconciliation}, u \in UpstreamBranches :
          calls[f].ok
          => /\ file \in DOMAIN disk
             /\ f \in DOMAIN disk[file]
             /\ TreeOut(statusCache, upstreamHashCache, ConcurrentProject, u,
                        ConcurrentBranch, {})[f].status = "translated"

\* ------------------------------------------------------------------------
\* Frame of translateFile on the persisted record
\* ------------------------------------------------------------------------
\* the entries of the status file of (p, w), none when there is no file
PersistedEntries(dsk, p, w) ==
  IF getStatusFilePath(p, w) \in DOMAIN dsk
  THEN dsk[getStatusFilePath(p, w)] ELSE EmptyMap

\* C32: translateFile changes the persisted record of its branch at its own
\* path only.  Every other path is in the status file of (project, working
\* branch) after the call, with the same status and lastHash, if and only if
\* it was in it before, whatever the state the call is made in (also right
\* after a clear emptied the cache and right after a load replaced it).
C32_TranslateFrame ==
  [][ret'.op = "translateFile"
     => LET before == PersistedEntries(disk, ret'.proj, ret'.wb)
            after == PersistedEntries(disk', ret'.proj, ret'.wb)
        IN \A q \in (DOMAIN before \cup DOMAIN after) \ {ret'.path} :
             /\ q \in DOMAIN before
             /\ q \in DOMAIN after
             /\ after[q] = before[q]]_vars

\* ------------------------------------------------------------------------
\* Properties of the upstream-hash cache (getBatchUpstreamHashes)
\* ------------------------------------------------------------------------
\* C33: a failed upstream bulk read is never cached.  A getFileTree whose
\* bulk listing fails while no map is cached for its project and upstream
\* branch leaves none cached, so the next request lists again; one whose
\* listing succeeds caches the listing; a map enters the cache only as the
\* listing of upstream as it is; and a cached map stays as it is until a
\* sync or a clear invalidates it.  (A step that leaves the cache as it is
\* can only break the second of these: a listing that succeeded and cached
\* nothing.)
C33_FailedReadNotCached ==
  [][\/ /\ upstreamHashCache' = upstreamHashCache
        /\ \/ ret'.op # "getFileTree"
           \/ "ls-tree -r" \in ret'.faults
           \/ \A u \in UpstreamBranches :
                getUpstreamCacheKey(ret'.proj, u) \in DOMAIN upstreamHashCache
     \/ \A p \in Projects(targets), u \in UpstreamBranches :
       LET key == getUpstreamCacheKey(p, u)
           listing == (ret'.op = "getFileTree" /\ ret'.proj = p)
       IN /\ (listing /\ key \notin DOMAIN upstreamHashCache
                      /\ "ls-tree -r" \in ret'.faults)
             => key \notin DOMAIN upstreamHashCache'
          /\ (listing /\ key \notin DOMAIN upstreamHashCache
                      /\ "ls-tree -r" \notin ret'.faults)
             => /\ key \in DOMAIN upstreamHashCache'
                /\ upstreamHashCache'[key] = ListUpstreamTree(targets, upstream, p)
          /\ (key \notin DOMAIN upstreamHashCache
              /\ key \in DOMAIN upstreamHashCache')
             => upstreamHashCache'[key] = ListUpstreamTree(targets, upstream', p)
          /\ (key \in DOMAIN upstreamHashCache
              /\ ret'.op \notin {"syncFileStatuses", "clearBranchCache",
                                 "clearProjectCache"})
             => /\ key \in DOMAIN upstreamHashCache'
                /\ upstreamHashCache'[key] = upstreamHashCache[key]]_vars

\* a getFileTree whose bulk listing failed has returned, and no map is cached
\* for its project
C33_Witness ==
  /\ ret.op = "getFileTree"
  /\ "ls-tree -r" \in ret.faults
  /\ \A u \in UpstreamBranches :
       getUpstreamCacheKey(ret.proj, u) \notin DOMAIN upstreamHashCache
  /\ ListUpstreamTree(targets, upstream, ret.proj) # EmptyMap

\* ------------------------------------------------------------------------
\* Properties of getFileTree with watched directories
\* ------------------------------------------------------------------------
\* C34: the upstream hash map a getFileTree call uses covers the watched
\* directories of the call.  When its listing did not fail, every path that
\* is on the upstream branch under one of the directories the call scans has
\* its hash in the map the call used, whatever directories earlier calls for
\* the project and upstream branch were made with.
C34_HashMapCoversWatched ==
  (ret.op = "getFileTree" /\ ret.faults = {})
  => \A f \in PathsOf(targets, ret.proj) :
       (/\ upstream[<<ret.proj, f>>] # 0
        /\ \E i \in DOMAIN dirsToScan(ret.out.watchDirectories) :
             UnderDirectory(dirsToScan(ret.out.watchDirectories)[i], f))
       => /\ f \in DOMAIN ret.out.upstreamHashMap
          /\ ret.out.upstreamHashMap[f] = BlobHash(upstream[<<ret.proj, f>>])

\* C35: each scanned file appears exactly once.  The flat list getFileTree
\* builds and the leaves of the tree it returns hold every file at most
\* once, also when watched directories overlap or are listed twice.
C35_ScannedOnce ==
  ret.op = "getFileTree"
  => \A f \in PathsOf(targets, ret.proj) :
       /\ Count(ret.out.allFiles, f) <= 1
       /\ Count(Flatten(ret.out.tree.pathMap, ret.out.tree.tree), f) <= 1


====
